---- MODULE Spec2Model ----
(***************************************************************************)
(* Grading orchestration core of the AutoGradeX backend.                   *)
(*                                                                         *)
(*   Spec       gradeSubmissionById / batchGradeAssignment over the store  *)
(*              (src/services/grading-service.js, src/plugins/database.js) *)
(*   SpecRetry  withRetry            (src/services/openai-service.js)      *)
(*   SpecAI     gradeSubmission      (src/services/openai-service.js)      *)
(*   SpecBatch  batchGrade           (src/services/openai-service.js)      *)
(*   SpecQuiz   quiz submission, gradeAnswer (src/routes/quiz.js),         *)
(*              gradeShortAnswer, gradeEssay (openai-service.js)           *)
(*   SpecBatchFair   SpecBatch with every settled promise handled          *)
(*   SpecTwoBatches  concurrent batchGradeAssignment calls only            *)
(*   SpecCallsFair   gradeSubmissionById calls only, run to their end      *)
(*   SpecContext     reference answer and points passed to the AI client   *)
(*   SpecTx          transaction(callback) (src/plugins/database.js)       *)
(*   SpecRoute, SpecRouteFair  POST /api/v1/batch/grade (routes/batch.js)  *)
(***************************************************************************)
EXTENDS Integers, Sequences, FiniteSets, TLC

VARIABLES
    \* ---- withRetry ----
    wrMax,        \* maxRetries argument
    wrAttempt,    \* loop variable attempt
    wrPc,         \* "loop" | "wait" | "returned" | "thrown"
    wrCalls,      \* sequence of the outcomes of fn's invocations so far
    wrDelays,     \* sequence of the setTimeout delays taken so far (ms)
    wrLastError,  \* lastError: [id, status]; id 0 is undefined
    wrThrown,     \* the error withRetry threw
    wrResult,     \* the value withRetry returned (invocation number), 0 = none
    \* ---- gradeSubmission (AI client) ----
    aiAnswer,     \* studentAnswer: "missing" | "blank" | "text"
    aiTotal,      \* totalPoints
    aiResponse,   \* provider payload: [json, score, pct]
    aiPc,         \* "call" | "returned" | "thrown"
    aiOut,        \* the returned object, or the thrown error
    aiProviderCalls, \* number of provider calls issued
    \* ---- batchGrade (AI client) ----
    bgSubs,       \* submissions argument: sequence of [id, content]
    bgI,          \* loop variable i (0-based offset of the current group)
    bgPc,         \* "loop" | "await" | "sleep" | "returned"
    bgPending,    \* positions whose gradeSubmission promise is outstanding
    bgSettled,    \* position -> value its promise chain fulfilled with
    bgOrder,      \* positions of the current group in completion order
    bgResults,    \* results array
    bgOutcome,    \* position -> how its gradeSubmission call settled
    bgPauses,     \* number of inter-group pauses taken
    \* ---- the store ----
    status,       \* submissions.status, by submission id
    content,      \* submissions.content, by submission id: "" or text
    pdfUrl,       \* submissions.pdf_url is set, by submission id
    grades,       \* rows of table grades: [submission_id, score, id]
    \* ---- gradeSubmissionById calls ----
    cPc,          \* position of each call
    cSub,         \* submissionId argument
    cContent,     \* local submissionContent
    cResult,      \* local gradingResult.score
    cErr,         \* error caught by the catch block ("" = none)
    cOut,         \* how the call ended: "" | "success" | the error thrown
    cWrote,       \* store writes the call has completed, in order
    cAiCalls,     \* AI client invocations the call has made
    cSawGrade,    \* a Grade of its submission existed when the call began
    cOverlap,     \* another grading operation on its submission ran meanwhile
    cExtract,     \* text extraction by the call: "" | "extracted" | "failed"
    \* ---- batchGradeAssignment calls ----
    bPc,          \* position of each batch call
    bSel,         \* local submissions (rows selected)
    bResults,     \* local results
    bIdx,         \* position of the for-of loop in results
    bGraded,      \* local graded
    bFailed,      \* local failed
    bOut,         \* "" | "returned" | "returned empty" | the error thrown
    bTally,       \* per submission, how the loop of the batch call handled it
    crashed,      \* the server process has died
    \* ---- quiz submission (POST /:assignmentId/submit) and gradeAnswer ----
    qzPc,         \* position of the handler, or of a direct AI client call
    qzN,          \* answers.length
    qzIdx,        \* answers of the for-of loop already handled
    qzCase,       \* the question and answer gradeAnswer was last called with
    qzProvider,   \* how the provider answered the call made for them
    qzResult,     \* what gradeAnswer (or the AI client function) returned
    qzTotalScore, \* local totalScore, in hundredths of a point
    qzTotalPoints, \* local totalPoints
    qzStored,     \* rows upserted into submission_answers
    qzGrade,      \* grades.score of the quiz submission, -1 = no row
    qzStatus,     \* submissions.status of the quiz submission
    qzAiFailed,   \* an AI call made for this submission has failed
    qzOut,        \* "" | "201" | the error the handler ended with
    \* ---- assignment context passed to the AI client ----
    cxPc,         \* "idle" | "done"
    cxRow,        \* the assignment columns the caller's SELECT returned
    cxCaller,     \* the function that assembled the context
    cxReference,  \* the referenceAnswer passed to the AI client
    cxTotal,      \* the totalPoints passed to the AI client
    \* ---- transaction(callback) (plugins/database.js) ----
    txPc,         \* "idle" | "begin" | "callback" | "commit" | "rollback" | "finally" | "done"
    txCallback,   \* the statements the callback issues, in order
    txIdx,        \* statements of the callback already issued
    txLog,        \* every statement sent on the client, in order
    txCb,         \* "" | "returned" | the error the callback threw
    txCaught,     \* err of the catch block, "" when it was not entered
    txAcquired,   \* pool.connect() gave a client
    txReleased,   \* number of client.release() calls
    txOut,        \* "" | "returned" | the error transaction() throws
    \* ---- POST /api/v1/batch/grade (routes/batch.js) ----
    rtPc,         \* "idle" | "queued" | "done"
    rtCase,       \* the assignment row: "missing" | "foreign" | "no rubric" | "ok"
    rtForce,      \* request.body.force
    rtSubs,       \* status of each submission of the assignment
    rtQueued,     \* submissionIds
    rtAudit,      \* "" | "written" | "failed": the audit logging of the request
    rtLaunched,   \* batchGradeAssignment was invoked
    rtBatch,      \* "" | "running" | "rejected": the detached batch call
    rtReply       \* HTTP status replied, 0 = none yet

retryVars == <<wrMax, wrAttempt, wrPc, wrCalls, wrDelays, wrLastError, wrThrown, wrResult>>
aiVars == <<aiAnswer, aiTotal, aiResponse, aiPc, aiOut, aiProviderCalls>>
batchVars == <<bgSubs, bgI, bgPc, bgPending, bgSettled, bgOrder, bgResults, bgOutcome, bgPauses>>
storeVars == <<status, content, pdfUrl, grades>>
callVars == <<cPc, cSub, cContent, cResult, cErr, cOut, cWrote, cAiCalls, cSawGrade, cOverlap,
              cExtract>>
batchCallVars == <<bPc, bSel, bResults, bIdx, bGraded, bFailed, bOut, bTally>>
orchVars == <<storeVars, callVars, batchCallVars, crashed>>
quizVars == <<qzPc, qzN, qzIdx, qzCase, qzProvider, qzResult, qzTotalScore, qzTotalPoints,
              qzStored, qzGrade, qzStatus, qzAiFailed, qzOut>>
contextVars == <<cxPc, cxRow, cxCaller, cxReference, cxTotal>>
txVars == <<txPc, txCallback, txIdx, txLog, txCb, txCaught, txAcquired, txReleased, txOut>>
routeVars == <<rtPc, rtCase, rtForce, rtSubs, rtQueued, rtAudit, rtLaunched, rtBatch, rtReply>>
vars == <<retryVars, aiVars, batchVars, orchVars, quizVars, contextVars, txVars, routeVars>>

notRetryVars == <<aiVars, batchVars, orchVars, quizVars, contextVars, txVars, routeVars>>
notAiVars == <<retryVars, batchVars, orchVars, quizVars, contextVars, txVars, routeVars>>
notBatchVars == <<retryVars, aiVars, orchVars, quizVars, contextVars, txVars, routeVars>>
notOrchVars == <<retryVars, aiVars, batchVars, quizVars, contextVars, txVars, routeVars>>
notQuizVars == <<retryVars, aiVars, batchVars, orchVars, contextVars, txVars, routeVars>>
notContextVars == <<retryVars, aiVars, batchVars, orchVars, quizVars, txVars, routeVars>>
notTxVars == <<retryVars, aiVars, batchVars, orchVars, quizVars, contextVars, routeVars>>
notRouteVars == <<retryVars, aiVars, batchVars, orchVars, quizVars, contextVars, txVars>>

(***************************************************************************)
(* withRetry                                                               *)
(***************************************************************************)
MaxRetriesBound == 4

DefaultMaxRetries == 3

\* error.status of a failed invocation; 0 stands for an error without status
ErrorStatuses == {0, 400, 401, 429, 500}

\* how one invocation of fn settles: resolved, or rejected with an error
FnOutcomes == {[ok |-> TRUE, status |-> 0]} \cup [ok : {FALSE}, status : ErrorStatuses]

NoError == [id |-> 0, status |-> 0]

isNonRetryable_only401(errStatus) == errStatus = 401

\* openai-service.js:242
isNonRetryable(errStatus) == errStatus = 400 \/ errStatus = 401

backoffDelay_offByOne(attempt) == (2 ^ (attempt - 1)) * 1000

\* openai-service.js:247
backoffDelay(attempt) == (2 ^ attempt) * 1000

InitRetry ==
    /\ wrMax \in 0..MaxRetriesBound
    /\ wrAttempt = 1
    /\ wrPc = "loop"
    /\ wrCalls = <<>>
    /\ wrDelays = <<>>
    /\ wrLastError = NoError
    /\ wrThrown = NoError
    /\ wrResult = 0

IdleRetry ==
    /\ wrMax = DefaultMaxRetries
    /\ wrAttempt = 1
    /\ wrPc = "idle"
    /\ wrCalls = <<>>
    /\ wrDelays = <<>>
    /\ wrLastError = NoError
    /\ wrThrown = NoError
    /\ wrResult = 0

\* one pass of the loop body: await fn(), and the catch block
withRetry_Invoke ==
    /\ wrPc = "loop"
    /\ wrAttempt <= wrMax
    /\ \E out \in FnOutcomes :
        LET n == Len(wrCalls) + 1 IN
        /\ wrCalls' = Append(wrCalls, out)
        /\ IF out.ok
           THEN /\ wrPc' = "returned"
                /\ wrResult' = n
                /\ UNCHANGED <<wrLastError, wrThrown, wrDelays, wrAttempt>>
           ELSE /\ wrLastError' = [id |-> n, status |-> out.status]
                /\ wrResult' = wrResult
                /\ IF isNonRetryable(out.status)
                   THEN /\ wrPc' = "thrown"
                        /\ wrThrown' = [id |-> n, status |-> out.status]
                        /\ UNCHANGED <<wrDelays, wrAttempt>>
                   ELSE IF wrAttempt < wrMax
                   THEN /\ wrDelays' = Append(wrDelays, backoffDelay(wrAttempt))
                        /\ wrPc' = "wait"
                        /\ UNCHANGED <<wrThrown, wrAttempt>>
                   ELSE /\ wrAttempt' = wrAttempt + 1
                        /\ wrPc' = "loop"
                        /\ UNCHANGED <<wrThrown, wrDelays>>
    /\ wrMax' = wrMax
    /\ UNCHANGED notRetryVars

\* the backoff timer fires; the loop goes on with attempt++
withRetry_Wake ==
    /\ wrPc = "wait"
    /\ wrAttempt' = wrAttempt + 1
    /\ wrPc' = "loop"
    /\ UNCHANGED <<wrMax, wrCalls, wrDelays, wrLastError, wrThrown, wrResult>>
    /\ UNCHANGED notRetryVars

\* the loop ended without a return: throw lastError
withRetry_Exhausted ==
    /\ wrPc = "loop"
    /\ wrAttempt > wrMax
    /\ wrPc' = "thrown"
    /\ wrThrown' = wrLastError
    /\ UNCHANGED <<wrMax, wrAttempt, wrCalls, wrDelays, wrLastError, wrResult>>
    /\ UNCHANGED notRetryVars

NextRetry == withRetry_Invoke \/ withRetry_Wake \/ withRetry_Exhausted

(***************************************************************************)
(* gradeSubmission                                                         *)
(***************************************************************************)
MaxTotalPoints == 3

\* a field of the parsed payload by its typeof: "undefined" (absent),
\* "string", or "number" with its value
Absent == [type |-> "undefined", val |-> 0]

ScoreFields ==
    {Absent, [type |-> "string", val |-> 0]}
    \cup [type : {"number"}, val : -1..(MaxTotalPoints + 1)]

PctFields == {Absent} \cup [type : {"number"}, val : {0, 50}]

\* message.content: not JSON, the JSON value null, or a JSON object
Responses ==
    {[json |-> "invalid", score |-> Absent, pct |-> Absent],
     [json |-> "null", score |-> Absent, pct |-> Absent]}
    \cup [json : {"object"}, score : ScoreFields, pct : PctFields]

isNumber(v) == v.type = "number"

\* Math.round(x / y * 100) for x >= 0, y > 0
roundPercent(x, y) == (200 * x + y) \div (2 * y)

invalidScore_noUpper(score, totalPoints) ==
    \/ ~isNumber(score)
    \/ score.val < 0

\* openai-service.js:127
invalidScore(score, totalPoints) ==
    \/ ~isNumber(score)
    \/ score.val < 0
    \/ score.val > totalPoints

Thrown(msg) == [ok |-> FALSE, error |-> msg, score |-> -1, percentage |-> -1]

\* the body of the try block after the provider answered with `resp`
parseAndValidate(resp, totalPoints) ==
    IF resp.json = "invalid" THEN Thrown("Grading failed: parse")
    ELSE IF resp.json = "null" THEN Thrown("Grading failed: type")
    ELSE IF invalidScore(resp.score, totalPoints)
    THEN Thrown("Grading failed: Invalid score in AI response")
    ELSE [ok |-> TRUE, error |-> "",
          score |-> resp.score.val,
          percentage |-> IF ~isNumber(resp.pct) \/ resp.pct.val = 0
                         THEN roundPercent(resp.score.val, totalPoints)
                         ELSE resp.pct.val]

InitAI ==
    /\ aiAnswer \in {"missing", "blank", "text"}
    /\ aiTotal \in 1..MaxTotalPoints
    /\ aiResponse \in Responses
    /\ aiPc = "call"
    /\ aiOut = Thrown("")
    /\ aiProviderCalls = 0

IdleAI ==
    /\ aiAnswer = "text"
    /\ aiTotal = 1
    /\ aiResponse = [json |-> "invalid", score |-> Absent, pct |-> Absent]
    /\ aiPc = "idle"
    /\ aiOut = Thrown("")
    /\ aiProviderCalls = 0

\* the precondition on studentAnswer fails: no provider call
gradeSubmission_Empty ==
    /\ aiPc = "call"
    /\ aiAnswer # "text"
    /\ aiPc' = "thrown"
    /\ aiOut' = Thrown("Student answer cannot be empty")
    /\ UNCHANGED <<aiAnswer, aiTotal, aiResponse, aiProviderCalls>>
    /\ UNCHANGED notAiVars

\* the provider call and the handling of its answer
gradeSubmission_Call ==
    /\ aiPc = "call"
    /\ aiAnswer = "text"
    /\ aiProviderCalls' = aiProviderCalls + 1
    /\ aiOut' = parseAndValidate(aiResponse, aiTotal)
    /\ aiPc' = IF aiOut'.ok THEN "returned" ELSE "thrown"
    /\ UNCHANGED <<aiAnswer, aiTotal, aiResponse>>
    /\ UNCHANGED notAiVars

\* the provider call itself rejects (network, rate limit, timeout)
gradeSubmission_ProviderError ==
    /\ aiPc = "call"
    /\ aiAnswer = "text"
    /\ aiProviderCalls' = aiProviderCalls + 1
    /\ aiOut' = Thrown("Grading failed: provider")
    /\ aiPc' = "thrown"
    /\ UNCHANGED <<aiAnswer, aiTotal, aiResponse>>
    /\ UNCHANGED notAiVars

NextAI == gradeSubmission_Empty \/ gradeSubmission_Call \/ gradeSubmission_ProviderError

(***************************************************************************)
(* batchGrade                                                              *)
(***************************************************************************)
MaxBatch == 6

\* openai-service.js:160
BATCH_SIZE == 5

Min(a, b) == IF a < b THEN a ELSE b

\* the j-th submission row handed to batchGrade: its id and its content
submissionRow(j) == [id |-> 100 + j, content |-> 200 + j]

\* an entry of results; `answer` records the studentAnswer the result was
\* computed from
NoEntry == [submission_id |-> 0, error |-> "", score |-> -1, answer |-> 0]

\* .then(result => ({ submission_id: submission.id, ...result }))
fulfilledEntry(submission, score) ==
    [submission_id |-> submission.id, error |-> "", score |-> score,
     answer |-> submission.content]

\* .catch(error => ({ submission_id: submission.id, error: error.message }))
rejectedEntry(submission, message) ==
    [submission_id |-> submission.id, error |-> message, score |-> -1,
     answer |-> submission.content]

\* positions of the group that starts at offset i: submissions.slice(i, i + BATCH_SIZE)
groupOf_all(i, n) == (i + 1)..n

\* submissions.slice(i, i + BATCH_SIZE), as positions
groupOf(i, n) == (i + 1)..Min(i + BATCH_SIZE, n)

groupResults_byCompletion(i, n, settled, order) ==
    [k \in 1..Len(order) |-> settled[order[k]]]

\* batchResults.map(...): Promise.allSettled keeps the order of its input
groupResults(i, n, settled, order) ==
    [k \in 1..(Min(i + BATCH_SIZE, n) - i) |-> settled[i + k]]

InitBatch ==
    /\ \E n \in 0..MaxBatch : bgSubs = [j \in 1..n |-> submissionRow(j)]
    /\ bgI = 0
    /\ bgPc = "loop"
    /\ bgPending = {}
    /\ bgSettled = [j \in 1..Len(bgSubs) |-> NoEntry]
    /\ bgOrder = <<>>
    /\ bgResults = <<>>
    /\ bgOutcome = [j \in 1..Len(bgSubs) |-> "none"]
    /\ bgPauses = 0

IdleBatch ==
    /\ bgSubs = <<>>
    /\ bgI = 0
    /\ bgPc = "idle"
    /\ bgPending = {}
    /\ bgSettled = <<>>
    /\ bgOrder = <<>>
    /\ bgResults = <<>>
    /\ bgOutcome = <<>>
    /\ bgPauses = 0

\* loop test passed: batch.map(...) starts every call of the group
batchGrade_StartGroup ==
    /\ bgPc = "loop"
    /\ bgI < Len(bgSubs)
    /\ bgPending' = groupOf(bgI, Len(bgSubs))
    /\ bgOrder' = <<>>
    /\ bgPc' = "await"
    /\ UNCHANGED <<bgSubs, bgI, bgSettled, bgResults, bgOutcome, bgPauses>>
    /\ UNCHANGED notBatchVars

\* one outstanding gradeSubmission call settles, in any order
batchGrade_Settle(j) ==
    /\ bgPc = "await"
    /\ j \in bgPending
    /\ \E ok \in BOOLEAN :
        /\ bgOutcome' = [bgOutcome EXCEPT ![j] = IF ok THEN "fulfilled" ELSE "rejected"]
        /\ bgSettled' = [bgSettled EXCEPT ![j] =
                            IF ok THEN fulfilledEntry(bgSubs[j], 1)
                            ELSE rejectedEntry(bgSubs[j], "Grading failed: provider")]
    /\ bgPending' = bgPending \ {j}
    /\ bgOrder' = Append(bgOrder, j)
    /\ UNCHANGED <<bgSubs, bgI, bgPc, bgResults, bgPauses>>
    /\ UNCHANGED notBatchVars

\* Promise.allSettled resolves: results.push(...), then the rate-limit test
batchGrade_Collect ==
    /\ bgPc = "await"
    /\ bgPending = {}
    /\ bgResults' = bgResults \o groupResults(bgI, Len(bgSubs), bgSettled, bgOrder)
    /\ IF bgI + BATCH_SIZE < Len(bgSubs)
       THEN /\ bgPc' = "sleep"
            /\ bgI' = bgI
       ELSE /\ bgPc' = "loop"
            /\ bgI' = bgI + BATCH_SIZE
    /\ UNCHANGED <<bgSubs, bgPending, bgSettled, bgOrder, bgOutcome, bgPauses>>
    /\ UNCHANGED notBatchVars

\* the 1000 ms timer between groups fires
batchGrade_Pause ==
    /\ bgPc = "sleep"
    /\ bgPauses' = bgPauses + 1
    /\ bgI' = bgI + BATCH_SIZE
    /\ bgPc' = "loop"
    /\ UNCHANGED <<bgSubs, bgPending, bgSettled, bgOrder, bgResults, bgOutcome>>
    /\ UNCHANGED notBatchVars

\* loop test failed: return results
batchGrade_Return ==
    /\ bgPc = "loop"
    /\ bgI >= Len(bgSubs)
    /\ bgPc' = "returned"
    /\ UNCHANGED <<bgSubs, bgI, bgPending, bgSettled, bgOrder, bgResults, bgOutcome, bgPauses>>
    /\ UNCHANGED notBatchVars

NextBatch ==
    \/ batchGrade_StartGroup
    \/ \E j \in 1..Len(bgSubs) : batchGrade_Settle(j)
    \/ batchGrade_Collect
    \/ batchGrade_Pause
    \/ batchGrade_Return

(***************************************************************************)
(* The store, gradeSubmissionById and batchGradeAssignment                 *)
(***************************************************************************)
NumSubmissions == 2

NumCalls == 2

NumBatches == 2

\* assignments.total_points of the one assignment
AssignmentTotalPoints == 1

Subs == 1..NumSubmissions

\* an id no submission row has
MissingId == 0

Calls == 1..NumCalls

BatchCalls == (NumCalls + 1)..(NumCalls + NumBatches)

\* the author of a Grade made by POST /submissions/:id/grade
ManualGrader == NumCalls + NumBatches + 1

NoSelection == <<>>

ErrNotFound == "Submission not found"

ErrExtract == "Unable to extract text from the submitted PDF"

ErrAlreadyGraded == "Submission already graded"

ErrUnique == "duplicate key value violates unique constraint grades_submission_id_key"

ErrStoreGrading == "store error: UPDATE status grading"

ErrStoreTx == "store error: transaction"

ErrStoreFailed == "store error: UPDATE status failed"

ErrAssignmentNotFound == "Assignment not found"

\* provider payloads the orchestrator's AI calls receive: overall_score is
\* the full score, or one point above it
OrchResponses ==
    {r \in Responses : /\ r.json = "object"
                       /\ r.pct = Absent
                       /\ r.score.type = "number"
                       /\ r.score.val >= AssignmentTotalPoints}

\* how openaiService.gradeSubmission may settle for a studentAnswer
gradeSubmissionOutcomes(answer, totalPoints) ==
    IF answer = ""
    THEN {Thrown("Student answer cannot be empty")}
    ELSE {parseAndValidate(r, totalPoints) : r \in OrchResponses}

\* values of submissions.content: none, typed text, text extracted from a PDF
Contents == {"", "text", "pdf text"}

\* what pdfParse finds in the file: it cannot be read or parsed, it holds no
\* text (image-based), or it holds text
PdfData == {"unreadable", "", "pdf text"}

\* file-service.js:94-125; the read of the file at grading-service.js:49
\* throws into the same catch block
extractTextFromPdf(data) ==
    IF data = "unreadable" \/ data = ""
    THEN [ok |-> FALSE, text |-> ""]
    ELSE [ok |-> TRUE, text |-> data]

\* grading-service.js:20-29: the rows the SELECT by id returns
submissionRows(s) == IF s \in Subs THEN {s} ELSE {}

loadError_wrong(rows) == IF rows = {} THEN ErrAlreadyGraded ELSE ""

\* grading-service.js:31-33
loadError(rows) == IF rows = {} THEN ErrNotFound ELSE ""

savedContent_keep(old, extracted) == old

\* grading-service.js:53-56  UPDATE submissions SET content = $1
savedContent(old, extracted) == extracted

gradeRows(rows, s) == {g \in rows : g.submission_id = s}

alreadyGraded_never(rows) == FALSE

\* grading-service.js:71  existingGrade.rows.length > 0
alreadyGraded(rows) == rows # {}

\* grading-service.js:40
needsExtraction(text, hasPdf) == text = "" /\ hasPdf

statusBeforeAI_unset(old) == old

\* grading-service.js:77  the status written before the AI call
statusBeforeAI(old) == "grading"

statusAfterFailure_unset(old) == old

\* grading-service.js:137  the status written by the catch block
statusAfterFailure(old) == "failed"

uniqueViolation_none(rows, s) == FALSE

\* 001_init.sql:116  UNIQUE(submission_id)
uniqueViolation(rows, s) == gradeRows(rows, s) # {}

\* grading-service.js:134-142: the error that leaves the catch block, given
\* the caught error and whether the `failed` status write threw
errorFromCatch(caught, writeThrew) == IF writeThrew THEN ErrStoreFailed ELSE caught

\* the rows batchGradeAssignment's SELECT returns: status pending, no grade,
\* ORDER BY submitted_at (submission ids are in submission order)
RECURSIVE pendingFrom(_, _, _)
pendingFrom(s, st, rows) ==
    IF s > NumSubmissions THEN <<>>
    ELSE (IF st[s] = "pending" /\ gradeRows(rows, s) = {}
          THEN <<s>> ELSE <<>>) \o pendingFrom(s + 1, st, rows)

\* grading-service.js:168-174
selectPending(st, rows) == pendingFrom(1, st, rows)

Range(f) == {f[i] : i \in DOMAIN f}

ActiveCall(c) == cPc[c] \notin {"off", "idle", "done"}

ActiveBatchOn(b, s) ==
    /\ bPc[b] \in {"ai", "store"}
    /\ \E j \in 1..Len(bSel[b]) : bSel[b][j].id = s

\* the rows of submissions and grades: submission 1 is a draft, is pending,
\* is submitted, or was graded by hand (routes/submissions.js:401-432), and
\* its work is typed text or only an uploaded PDF; the others are pending
\* typed submissions
InitStore ==
    /\ \E st \in {"draft", "pending", "submitted", "graded"} :
        /\ status = [s \in Subs |-> IF s = 1 THEN st ELSE "pending"]
        /\ grades = IF st = "graded"
                    THEN {[submission_id |-> 1, score |-> AssignmentTotalPoints,
                           id |-> ManualGrader]}
                    ELSE {}
    /\ \E kind \in {"typed", "pdf only"} :
        /\ content = [s \in Subs |-> IF s = 1 /\ kind = "pdf only" THEN "" ELSE "text"]
        /\ pdfUrl = [s \in Subs |-> s = 1 /\ kind = "pdf only"]

\* no call is running; `calls` and `batches` are the calls that will be made
InitCalls(calls, batches) ==
    /\ cPc = [c \in Calls |-> IF c \in calls THEN "idle" ELSE "off"]
    /\ bPc = [b \in BatchCalls |-> IF b \in batches THEN "idle" ELSE "off"]

\* the locals of the calls before they run
InitLocals ==
    /\ cSub = [c \in Calls |-> MissingId]
    /\ cContent = [c \in Calls |-> ""]
    /\ cResult = [c \in Calls |-> -1]
    /\ cErr = [c \in Calls |-> ""]
    /\ cOut = [c \in Calls |-> ""]
    /\ cWrote = [c \in Calls |-> <<>>]
    /\ cAiCalls = [c \in Calls |-> 0]
    /\ cSawGrade = [c \in Calls |-> FALSE]
    /\ cOverlap = [c \in Calls |-> FALSE]
    /\ cExtract = [c \in Calls |-> ""]
    /\ bSel = [b \in BatchCalls |-> NoSelection]
    /\ bResults = [b \in BatchCalls |-> <<>>]
    /\ bIdx = [b \in BatchCalls |-> 0]
    /\ bGraded = [b \in BatchCalls |-> 0]
    /\ bFailed = [b \in BatchCalls |-> 0]
    /\ bOut = [b \in BatchCalls |-> ""]
    /\ bTally = [b \in BatchCalls |-> [s \in Subs |-> ""]]
    /\ crashed = FALSE

\* the calls of Spec: every gradeSubmissionById call and one batch
InitOrch == InitStore /\ InitCalls(Calls, {NumCalls + 1}) /\ InitLocals

IdleOrch ==
    /\ status = <<>>
    /\ content = <<>>
    /\ pdfUrl = <<>>
    /\ grades = {}
    /\ cPc = <<>>
    /\ cSub = <<>>
    /\ cContent = <<>>
    /\ cResult = <<>>
    /\ cErr = <<>>
    /\ cOut = <<>>
    /\ cWrote = <<>>
    /\ cAiCalls = <<>>
    /\ cSawGrade = <<>>
    /\ cOverlap = <<>>
    /\ cExtract = <<>>
    /\ bPc = <<>>
    /\ bSel = <<>>
    /\ bResults = <<>>
    /\ bIdx = <<>>
    /\ bGraded = <<>>
    /\ bFailed = <<>>
    /\ bOut = <<>>
    /\ bTally = <<>>
    /\ crashed = FALSE

\* the call ends by throwing `e`
Throw(c, e) ==
    /\ cPc' = [cPc EXCEPT ![c] = "done"]
    /\ cOut' = [cOut EXCEPT ![c] = e]

\* the call's locals go out of scope when it ends
DropLocals(c) ==
    /\ cContent' = [cContent EXCEPT ![c] = ""]
    /\ cResult' = [cResult EXCEPT ![c] = -1]

\* gradeSubmissionById(fastify, s) is invoked
gradeById_Begin(c, s) ==
    /\ ~crashed
    /\ cPc[c] = "idle"
    /\ cPc' = [cPc EXCEPT ![c] = "load"]
    /\ cSub' = [cSub EXCEPT ![c] = s]
    /\ cSawGrade' = [cSawGrade EXCEPT ![c] = gradeRows(grades, s) # {}]
    /\ LET others == {d \in Calls \ {c} : ActiveCall(d) /\ cSub[d] = s} IN
       cOverlap' = [d \in Calls |->
                      IF d = c
                      THEN others # {} \/ \E b \in BatchCalls : ActiveBatchOn(b, s)
                      ELSE cOverlap[d] \/ d \in others]
    /\ UNCHANGED <<cContent, cResult, cErr, cOut, cWrote, cAiCalls, cExtract>>
    /\ UNCHANGED <<storeVars, batchCallVars, crashed>>
    /\ UNCHANGED notOrchVars

\* lines 20-40: SELECT the submission; not found, or content resolution
gradeById_Load(c) ==
    /\ ~crashed
    /\ cPc[c] = "load"
    /\ IF loadError(submissionRows(cSub[c])) # ""
       THEN /\ Throw(c, loadError(submissionRows(cSub[c])))
            /\ UNCHANGED cContent
       ELSE /\ cContent' = [cContent EXCEPT ![c] = content[cSub[c]]]
            /\ cPc' = [cPc EXCEPT ![c] =
                         IF needsExtraction(content[cSub[c]], pdfUrl[cSub[c]])
                         THEN "extract" ELSE "check"]
            /\ UNCHANGED cOut
    /\ UNCHANGED <<cSub, cResult, cErr, cWrote, cAiCalls, cSawGrade, cOverlap, cExtract>>
    /\ UNCHANGED <<storeVars, batchCallVars, crashed>>
    /\ UNCHANGED notOrchVars

extractFailed_gradeEmpty(c) ==
    /\ cPc' = [cPc EXCEPT ![c] = "check"]
    /\ UNCHANGED <<cOut, cContent>>

\* lines 59-62: the catch block of the extraction throws the extraction error
extractFailed(c) ==
    /\ Throw(c, ErrExtract)
    /\ UNCHANGED cContent

\* lines 42-50 and 59-62: read the PDF and extract its text
gradeById_Extract(c) ==
    /\ ~crashed
    /\ cPc[c] = "extract"
    /\ \E data \in PdfData :
        LET r == extractTextFromPdf(data) IN
        IF r.ok
        THEN /\ cContent' = [cContent EXCEPT ![c] = r.text]
             /\ cPc' = [cPc EXCEPT ![c] = "saveContent"]
             /\ cExtract' = [cExtract EXCEPT ![c] = "extracted"]
             /\ UNCHANGED cOut
        ELSE /\ extractFailed(c)
             /\ cExtract' = [cExtract EXCEPT ![c] = "failed"]
    /\ UNCHANGED <<cSub, cResult, cErr, cWrote, cAiCalls, cSawGrade, cOverlap>>
    /\ UNCHANGED <<storeVars, batchCallVars, crashed>>
    /\ UNCHANGED notOrchVars

\* lines 53-62: UPDATE submissions SET content; a failure is caught with
\* the extraction failures
gradeById_SaveContent(c) ==
    /\ ~crashed
    /\ cPc[c] = "saveContent"
    /\ \E written \in BOOLEAN :
        IF written
        THEN /\ content' = [content EXCEPT ![cSub[c]] = savedContent(@, cContent[c])]
             /\ cWrote' = [cWrote EXCEPT ![c] = Append(@, "content")]
             /\ cPc' = [cPc EXCEPT ![c] = "check"]
             /\ UNCHANGED <<cOut, cContent, cResult>>
        ELSE /\ Throw(c, ErrExtract)
             /\ DropLocals(c)
             /\ UNCHANGED <<content, cWrote>>
    /\ UNCHANGED <<cSub, cErr, cAiCalls, cSawGrade, cOverlap, cExtract>>
    /\ UNCHANGED <<status, pdfUrl, grades, batchCallVars, crashed>>
    /\ UNCHANGED notOrchVars

\* lines 65-73: the existing-Grade check
gradeById_CheckGraded(c) ==
    /\ ~crashed
    /\ cPc[c] = "check"
    /\ IF alreadyGraded(gradeRows(grades, cSub[c]))
       THEN /\ Throw(c, ErrAlreadyGraded)
            /\ DropLocals(c)
       ELSE /\ cPc' = [cPc EXCEPT ![c] = "setGrading"]
            /\ UNCHANGED <<cOut, cContent, cResult>>
    /\ UNCHANGED <<cSub, cErr, cWrote, cAiCalls, cSawGrade, cOverlap, cExtract>>
    /\ UNCHANGED <<storeVars, batchCallVars, crashed>>
    /\ UNCHANGED notOrchVars

\* lines 75-79: UPDATE status to grading; a failure propagates (outside try)
gradeById_SetGrading(c) ==
    /\ ~crashed
    /\ cPc[c] = "setGrading"
    /\ \E written \in BOOLEAN :
        IF written
        THEN /\ status' = [status EXCEPT ![cSub[c]] = statusBeforeAI(@)]
             /\ cWrote' = [cWrote EXCEPT ![c] = Append(@, "grading")]
             /\ cPc' = [cPc EXCEPT ![c] = "ai"]
             /\ cAiCalls' = [cAiCalls EXCEPT ![c] = @ + 1]
             /\ UNCHANGED <<cOut, cContent, cResult>>
        ELSE /\ Throw(c, ErrStoreGrading)
             /\ DropLocals(c)
             /\ UNCHANGED <<status, cWrote, cAiCalls>>
    /\ UNCHANGED <<cSub, cErr, cSawGrade, cOverlap, cExtract>>
    /\ UNCHANGED <<content, pdfUrl, grades, batchCallVars, crashed>>
    /\ UNCHANGED notOrchVars

\* lines 81-94: the AI call, in flight since the status write, settles
gradeById_AI(c) ==
    /\ ~crashed
    /\ cPc[c] = "ai"
    /\ \E r \in gradeSubmissionOutcomes(cContent[c], AssignmentTotalPoints) :
        IF r.ok
        THEN /\ cResult' = [cResult EXCEPT ![c] = r.score]
             /\ cPc' = [cPc EXCEPT ![c] = "tx"]
             /\ UNCHANGED cErr
        ELSE /\ cErr' = [cErr EXCEPT ![c] = r.error]
             /\ cPc' = [cPc EXCEPT ![c] = "markFailed"]
             /\ UNCHANGED cResult
    /\ UNCHANGED <<cSub, cContent, cOut, cWrote, cAiCalls, cSawGrade, cOverlap, cExtract>>
    /\ UNCHANGED <<storeVars, batchCallVars, crashed>>
    /\ UNCHANGED notOrchVars

\* lines 96-133 with database.js:65-78: BEGIN, INSERT the grade, UPDATE the
\* status, COMMIT; or ROLLBACK and rethrow into the catch block
gradeById_Transaction(c) ==
    /\ ~crashed
    /\ cPc[c] = "tx"
    /\ \E storeOk \in BOOLEAN :
        IF storeOk /\ ~uniqueViolation(grades, cSub[c])
        THEN /\ grades' = grades \cup
                    {[submission_id |-> cSub[c], score |-> cResult[c], id |-> c]}
             /\ status' = [status EXCEPT ![cSub[c]] = "graded"]
             /\ cWrote' = [cWrote EXCEPT ![c] = @ \o <<"grade", "graded">>]
             /\ cPc' = [cPc EXCEPT ![c] = "done"]
             /\ cOut' = [cOut EXCEPT ![c] = "success"]
             /\ DropLocals(c)
             /\ UNCHANGED cErr
        ELSE /\ cErr' = [cErr EXCEPT ![c] = IF storeOk THEN ErrUnique ELSE ErrStoreTx]
             /\ cPc' = [cPc EXCEPT ![c] = "markFailed"]
             /\ UNCHANGED <<grades, status, cWrote, cOut, cContent, cResult>>
    /\ UNCHANGED <<cSub, cAiCalls, cSawGrade, cOverlap, cExtract>>
    /\ UNCHANGED <<content, pdfUrl, batchCallVars, crashed>>
    /\ UNCHANGED notOrchVars

\* lines 134-142: UPDATE status to failed, then throw
gradeById_MarkFailed(c) ==
    /\ ~crashed
    /\ cPc[c] = "markFailed"
    /\ \E written \in BOOLEAN :
        /\ IF written
           THEN /\ status' = [status EXCEPT ![cSub[c]] = statusAfterFailure(@)]
                /\ cWrote' = [cWrote EXCEPT ![c] = Append(@, "failed")]
           ELSE UNCHANGED <<status, cWrote>>
        /\ Throw(c, errorFromCatch(cErr[c], ~written))
    /\ DropLocals(c)
    /\ UNCHANGED <<cSub, cErr, cAiCalls, cSawGrade, cOverlap, cExtract>>
    /\ UNCHANGED <<content, pdfUrl, grades, batchCallVars, crashed>>
    /\ UNCHANGED notOrchVars

\* the server process dies while an AI call of gradeSubmissionById is in flight
Crash ==
    /\ ~crashed
    /\ \E c \in Calls : cPc[c] = "ai"
    /\ crashed' = TRUE
    /\ UNCHANGED <<storeVars, callVars, batchCallVars>>
    /\ UNCHANGED notOrchVars

\* what openaiService.batchGrade returns for `rows` when the call for
\* rows[j] settles as outs[j]: one entry per row, in the order of rows
batchGradeResults(rows, outs) ==
    [j \in 1..Len(rows) |->
        IF outs[j].ok THEN fulfilledEntry(rows[j], outs[j].score)
        ELSE rejectedEntry(rows[j], outs[j].error)]

\* the batch call ends, returning or throwing `out`
BatchEnd(b, out) ==
    /\ bPc' = [bPc EXCEPT ![b] = "done"]
    /\ bOut' = [bOut EXCEPT ![b] = out]
    /\ bResults' = [bResults EXCEPT ![b] = <<>>]
    /\ bIdx' = [bIdx EXCEPT ![b] = 0]

\* batchGradeAssignment(fastify, assignmentId) is invoked
batch_Begin(b) ==
    /\ ~crashed
    /\ bPc[b] = "idle"
    /\ bPc' = [bPc EXCEPT ![b] = "assignment"]
    /\ UNCHANGED <<bSel, bResults, bIdx, bGraded, bFailed, bOut, bTally>>
    /\ UNCHANGED <<storeVars, callVars, crashed>>
    /\ UNCHANGED notOrchVars

\* lines 152-165: SELECT the assignment; it exists or it does not
batch_LoadAssignment(b) ==
    /\ ~crashed
    /\ bPc[b] = "assignment"
    /\ \E found \in BOOLEAN :
        IF found
        THEN /\ bPc' = [bPc EXCEPT ![b] = "select"]
             /\ UNCHANGED <<bOut, bResults, bIdx>>
        ELSE BatchEnd(b, ErrAssignmentNotFound)
    /\ UNCHANGED <<bSel, bGraded, bFailed, bTally>>
    /\ UNCHANGED <<storeVars, callVars, crashed>>
    /\ UNCHANGED notOrchVars

\* lines 167-185: SELECT the pending submissions
batch_Select(b) ==
    /\ ~crashed
    /\ bPc[b] = "select"
    /\ LET ids == selectPending(status, grades) IN
       IF ids = <<>>
       THEN /\ BatchEnd(b, "returned empty")
            /\ UNCHANGED <<bSel, cOverlap>>
       ELSE /\ bSel' = [bSel EXCEPT ![b] =
                          [j \in 1..Len(ids) |-> [id |-> ids[j], content |-> content[ids[j]]]]]
            /\ bPc' = [bPc EXCEPT ![b] = "ai"]
            /\ cOverlap' = [c \in Calls |->
                              cOverlap[c] \/ (ActiveCall(c) /\ cSub[c] \in Range(ids))]
            /\ UNCHANGED <<bOut, bResults, bIdx>>
    /\ UNCHANGED <<bGraded, bFailed, bTally>>
    /\ UNCHANGED <<cPc, cSub, cContent, cResult, cErr, cOut, cWrote, cAiCalls, cSawGrade,
                   cExtract>>
    /\ UNCHANGED <<storeVars, crashed>>
    /\ UNCHANGED notOrchVars

\* lines 187-198: await openaiService.batchGrade(...)
batch_AI(b) ==
    /\ ~crashed
    /\ bPc[b] = "ai"
    /\ \E outs \in [1..Len(bSel[b]) ->
                      UNION {gradeSubmissionOutcomes(a, AssignmentTotalPoints) : a \in Contents}] :
        /\ \A j \in 1..Len(bSel[b]) :
              outs[j] \in gradeSubmissionOutcomes(bSel[b][j].content, AssignmentTotalPoints)
        /\ bResults' = [bResults EXCEPT ![b] = batchGradeResults(bSel[b], outs)]
    /\ bIdx' = [bIdx EXCEPT ![b] = 1]
    /\ bPc' = [bPc EXCEPT ![b] = "store"]
    /\ UNCHANGED <<bSel, bGraded, bFailed, bOut, bTally>>
    /\ UNCHANGED <<storeVars, callVars, crashed>>
    /\ UNCHANGED notOrchVars

\* the for-of loop moves on; after the last result, lines 236-241 return
BatchAdvance(b) ==
    IF bIdx[b] = Len(bResults[b])
    THEN BatchEnd(b, "returned")
    ELSE /\ bIdx' = [bIdx EXCEPT ![b] = @ + 1]
         /\ UNCHANGED <<bPc, bOut, bResults>>

\* lines 201-206: an error entry: failed++, UPDATE status to failed (not in
\* a try block: a failure of the write leaves batchGradeAssignment)
batch_StoreError(b) ==
    /\ ~crashed
    /\ bPc[b] = "store"
    /\ bResults[b][bIdx[b]].error # ""
    /\ bFailed' = [bFailed EXCEPT ![b] = @ + 1]
    /\ bTally' = [bTally EXCEPT ![b][bResults[b][bIdx[b]].submission_id] = "ai error"]
    /\ \E written \in BOOLEAN :
        IF written
        THEN /\ status' = [status EXCEPT ![bResults[b][bIdx[b]].submission_id] = "failed"]
             /\ BatchAdvance(b)
        ELSE /\ BatchEnd(b, ErrStoreFailed)
             /\ UNCHANGED status
    /\ UNCHANGED <<bSel, bGraded>>
    /\ UNCHANGED <<content, pdfUrl, grades, callVars, crashed>>
    /\ UNCHANGED notOrchVars

\* lines 207-233: a result entry: the transaction inserting the grade and
\* setting status graded; a failure is caught, counted and logged
batch_StoreGrade(b) ==
    /\ ~crashed
    /\ bPc[b] = "store"
    /\ bResults[b][bIdx[b]].error = ""
    /\ LET r == bResults[b][bIdx[b]] IN
       \E storeOk \in BOOLEAN :
        IF storeOk /\ ~uniqueViolation(grades, r.submission_id)
        THEN /\ grades' = grades \cup
                    {[submission_id |-> r.submission_id, score |-> r.score, id |-> b]}
             /\ status' = [status EXCEPT ![r.submission_id] = "graded"]
             /\ bGraded' = [bGraded EXCEPT ![b] = @ + 1]
             /\ bTally' = [bTally EXCEPT ![b][r.submission_id] = "graded"]
             /\ UNCHANGED bFailed
        ELSE /\ bFailed' = [bFailed EXCEPT ![b] = @ + 1]
             /\ bTally' = [bTally EXCEPT ![b][r.submission_id] =
                              IF storeOk THEN "conflict" ELSE "store error"]
             /\ UNCHANGED <<grades, status, bGraded>>
    /\ BatchAdvance(b)
    /\ UNCHANGED bSel
    /\ UNCHANGED <<content, pdfUrl, callVars, crashed>>
    /\ UNCHANGED notOrchVars

Next ==
    \/ \E c \in Calls, s \in Subs \cup {MissingId} : gradeById_Begin(c, s)
    \/ \E c \in Calls : gradeById_Load(c)
    \/ \E c \in Calls : gradeById_Extract(c)
    \/ \E c \in Calls : gradeById_SaveContent(c)
    \/ \E c \in Calls : gradeById_CheckGraded(c)
    \/ \E c \in Calls : gradeById_SetGrading(c)
    \/ \E c \in Calls : gradeById_AI(c)
    \/ \E c \in Calls : gradeById_Transaction(c)
    \/ \E c \in Calls : gradeById_MarkFailed(c)
    \/ \E b \in BatchCalls : batch_Begin(b)
    \/ \E b \in BatchCalls : batch_LoadAssignment(b)
    \/ \E b \in BatchCalls : batch_Select(b)
    \/ \E b \in BatchCalls : batch_AI(b)
    \/ \E b \in BatchCalls : batch_StoreError(b)
    \/ \E b \in BatchCalls : batch_StoreGrade(b)
    \/ Crash

(***************************************************************************)
(* Quiz answers: gradeShortAnswer, gradeEssay, gradeAnswer                 *)
(***************************************************************************)
MaxTextLen == 2

MaxPoints == 2

MaxAnswers == 2

\* a text is a sequence of characters; " " stands for any whitespace
Chars == {"a", "A", " "}

Texts == UNION {[1..n -> Chars] : n \in 0..MaxTextLen}

\* a property that may be undefined
Undefined == [present |-> FALSE, text |-> <<>>]

Defined(text) == [present |-> TRUE, text |-> text]

OptTexts == {Undefined} \cup {Defined(x) : x \in Texts}

\* String.prototype.trim
RECURSIVE trimStart(_)
trimStart(s) == IF s # <<>> /\ Head(s) = " " THEN trimStart(Tail(s)) ELSE s

RECURSIVE trimEnd(_)
trimEnd(s) ==
    IF s # <<>> /\ s[Len(s)] = " " THEN trimEnd(SubSeq(s, 1, Len(s) - 1)) ELSE s

trim(s) == trimEnd(trimStart(s))

\* String.prototype.toLowerCase
toLowerCase(s) == [i \in 1..Len(s) |-> IF s[i] = "A" THEN "a" ELSE s[i]]

\* v || ''
orEmpty(v) == IF v.present THEN v.text ELSE <<>>

isBlank_emptyOnly(v) == ~v.present \/ v.text = <<>>

\* openai-service.js:278, 346 and quiz.js:686
\*   !studentAnswer || studentAnswer.trim().length === 0
isBlank(v) == ~v.present \/ v.text = <<>> \/ Len(trim(v.text)) = 0

\* the provider's answer to one chat completion: the call rejects, the
\* content is not JSON, or it is an object whose score field is absent or a
\* number
QuizPercents == {-20, 0, 50, 60, 80, 100, 150}

ProviderOutcomes ==
    {[kind |-> "error", score |-> Absent], [kind |-> "invalid json", score |-> Absent]}
    \cup {[kind |-> "object", score |-> f] :
            f \in {Absent} \cup [type : {"number"}, val : QuizPercents]}

NoProviderCall == [kind |-> "none", score |-> Absent]

\* Math.min(100, Math.max(0, score || 0))
clampPercent(f) ==
    LET v == IF isNumber(f) THEN f.val ELSE 0 IN
    IF v < 0 THEN 0 ELSE IF v > 100 THEN 100 ELSE v

\* Math.round((scorePercent / 100) * points * 100) / 100, in hundredths
pointsEarned(scorePercent, points) == scorePercent * points

boolean(b) == IF b THEN "true" ELSE "false"

\* what an AI client function gives back; score is in hundredths of a point
ClientReturn(score, percentage, isCorrect, feedback, providerCalls) ==
    [threw |-> FALSE, score |-> score, percentage |-> percentage,
     is_correct |-> isCorrect, feedback |-> feedback, providerCalls |-> providerCalls]

ClientThrow(message) ==
    [threw |-> TRUE, score |-> 0, percentage |-> 0,
     is_correct |-> "undefined", feedback |-> message, providerCalls |-> 1]

\* openai-service.js:277-333
gradeShortAnswer(studentAnswer, points, provider) ==
    IF isBlank(studentAnswer)
    THEN ClientReturn(0, 0, "undefined", "No answer provided.", 0)
    ELSE IF provider.kind # "object"
    THEN ClientThrow("Short answer grading failed")
    ELSE LET scorePercent == clampPercent(provider.score) IN
         ClientReturn(pointsEarned(scorePercent, points), scorePercent,
                      boolean(scorePercent >= 80), "ai feedback", 1)

\* openai-service.js:345-435
gradeEssay(studentAnswer, points, provider) ==
    IF isBlank(studentAnswer)
    THEN ClientReturn(0, 0, "false", "No answer provided.", 0)
    ELSE IF provider.kind # "object"
    THEN ClientThrow("Essay grading failed")
    ELSE LET scorePercent == clampPercent(provider.score) IN
         ClientReturn(pointsEarned(scorePercent, points), scorePercent,
                      boolean(scorePercent >= 60), "ai feedback", 1)

\* entries question.correct_answers may hold
CorrectTexts == {<<"a">>, <<" ", "A">>, <<"a", "a">>}

MaxCorrect == 2

\* question.correct_answers: null, or a list
CorrectLists ==
    {[present |-> FALSE, list |-> <<>>]}
    \cup {[present |-> TRUE, list |-> l] :
            l \in UNION {[1..n -> CorrectTexts] : n \in 0..MaxCorrect}}

NoCorrectList == [present |-> FALSE, list |-> <<>>]

\* the id of the option with is_correct, and answer.selected_options[0]
OptionIds == {Undefined, Defined(<<"a">>)}

\* a question of the quiz together with the answer given to it
QuizCases ==
    [type : {"short_answer"}, correct_answers : CorrectLists,
     hasReference : BOOLEAN, points : 1..MaxPoints, option : {Undefined},
     answer_text : OptTexts, selected : {Undefined}]
    \cup
    [type : {"essay"}, correct_answers : {NoCorrectList},
     hasReference : BOOLEAN, points : 1..MaxPoints, option : {Undefined},
     answer_text : OptTexts, selected : {Undefined}]
    \cup
    [type : {"multiple_choice", "true_false"}, correct_answers : {NoCorrectList},
     hasReference : {FALSE}, points : 1..MaxPoints, option : OptionIds,
     answer_text : OptTexts, selected : OptionIds]
    \cup
    [type : {"matching"}, correct_answers : {NoCorrectList},
     hasReference : {FALSE}, points : {1}, option : {Undefined},
     answer_text : {Undefined}, selected : {Undefined}]

NoCase ==
    [type |-> "", correct_answers |-> NoCorrectList, hasReference |-> FALSE,
     points |-> 0, option |-> Undefined, answer_text |-> Undefined,
     selected |-> Undefined]

\* what gradeAnswer gives back; points_earned is in hundredths of a point
AnswerResult(isCorrect, points, feedback, aiClient, providerCalls) ==
    [threw |-> FALSE, is_correct |-> isCorrect, points_earned |-> points,
     feedback |-> feedback, aiClient |-> aiClient, providerCalls |-> providerCalls]

NoResult == AnswerResult("undefined", 0, "", "", 0)

ReviewFeedback == "Unable to grade automatically. Instructor will review."

onAIFailure_rethrow(aiClient) ==
    [threw |-> TRUE, is_correct |-> "undefined", points_earned |-> 0,
     feedback |-> "", aiClient |-> aiClient, providerCalls |-> 1]

\* quiz.js:667-674 and 708-715: the catch around the AI client call
onAIFailure(aiClient) == AnswerResult("false", 0, ReviewFeedback, aiClient, 1)

\* quiz.js:662-666 and 703-707
fromClient(r, aiClient) ==
    IF r.threw THEN onAIFailure(aiClient)
    ELSE AnswerResult(r.is_correct, r.score, r.feedback, aiClient, r.providerCalls)

\* quiz.js:614 and 625  correctOption && selectedId === correctOption.id
isCorrectOption(selectedId, option) ==
    IF ~option.present THEN "undefined"
    ELSE boolean(selectedId.present /\ selectedId.text = option.text)

isExactMatch_caseSensitive(correct_answers, studentAnswer) ==
    /\ correct_answers.present
    /\ \E i \in 1..Len(correct_answers.list) : trim(correct_answers.list[i]) = studentAnswer

\* quiz.js:637-641
isExactMatch(correct_answers, studentAnswer) ==
    /\ correct_answers.present
    /\ Len(correct_answers.list) > 0
    /\ \E i \in 1..Len(correct_answers.list) :
          trim(toLowerCase(correct_answers.list[i])) = studentAnswer

\* quiz.js:607-725
gradeAnswer(q, provider) ==
    CASE q.type = "multiple_choice" ->
           LET selectedId == IF q.answer_text.present /\ q.answer_text.text # <<>>
                             THEN q.answer_text ELSE q.selected
               isCorrect == isCorrectOption(selectedId, q.option) IN
           AnswerResult(isCorrect, IF isCorrect = "true" THEN 100 * q.points ELSE 0,
                        IF isCorrect = "true" THEN "Correct!" ELSE "Incorrect.", "", 0)
      [] q.type = "true_false" ->
           LET selectedId == IF q.answer_text.present
                             THEN Defined(toLowerCase(q.answer_text.text))
                             ELSE Undefined
               isCorrect == isCorrectOption(selectedId, q.option) IN
           AnswerResult(isCorrect, IF isCorrect = "true" THEN 100 * q.points ELSE 0,
                        IF isCorrect = "true" THEN "Correct!" ELSE "Incorrect.", "", 0)
      [] q.type = "short_answer" ->
           LET studentAnswer == toLowerCase(trim(orEmpty(q.answer_text))) IN
           IF isExactMatch(q.correct_answers, studentAnswer)
           THEN AnswerResult("true", 100 * q.points, "Correct!", "", 0)
           ELSE IF q.hasReference
           THEN fromClient(gradeShortAnswer(Defined(orEmpty(q.answer_text)),
                                            q.points, provider),
                           "gradeShortAnswer")
           ELSE AnswerResult("false", 0, "Answer does not match expected response.", "", 0)
      [] q.type = "essay" ->
           IF isBlank(q.answer_text)
           THEN AnswerResult("false", 0, "No answer provided.", "", 0)
           ELSE fromClient(gradeEssay(q.answer_text, q.points, provider), "gradeEssay")
      [] OTHER -> AnswerResult("false", 0, "Unknown question type", "", 0)

(***************************************************************************)
(* POST /:assignmentId/submit (routes/quiz.js) and direct AI client calls  *)
(***************************************************************************)
ErrQuizStore == "store error: quiz"

ErrGradeAnswer == "gradeAnswer threw"

InitQuiz ==
    /\ qzPc = "idle"
    /\ qzN = 0
    /\ qzIdx = 0
    /\ qzCase = NoCase
    /\ qzProvider = NoProviderCall
    /\ qzResult = NoResult
    /\ qzTotalScore = 0
    /\ qzTotalPoints = 0
    /\ qzStored = 0
    /\ qzGrade = -1
    /\ qzStatus = ""
    /\ qzAiFailed = FALSE
    /\ qzOut = ""

IdleQuiz ==
    /\ qzPc = "off"
    /\ qzN = 0
    /\ qzIdx = 0
    /\ qzCase = NoCase
    /\ qzProvider = NoProviderCall
    /\ qzResult = NoResult
    /\ qzTotalScore = 0
    /\ qzTotalPoints = 0
    /\ qzStored = 0
    /\ qzGrade = -1
    /\ qzStatus = ""
    /\ qzAiFailed = FALSE
    /\ qzOut = ""

\* the handler ends with an error thrown by a query or by gradeAnswer
QuizFail(e) ==
    /\ qzPc' = "done"
    /\ qzOut' = e
    /\ qzCase' = NoCase
    /\ qzProvider' = NoProviderCall
    /\ qzResult' = NoResult

\* quiz.js:395-447: the submission row is created, or reset, with status
\* submitted; the questions are loaded
quiz_Submit ==
    /\ qzPc = "idle"
    /\ \E n \in 0..MaxAnswers, stored \in BOOLEAN :
        IF stored
        THEN /\ qzN' = n
             /\ qzStatus' = "submitted"
             /\ qzPc' = "loop"
             /\ UNCHANGED <<qzOut, qzCase, qzProvider, qzResult>>
        ELSE /\ QuizFail(ErrQuizStore)
             /\ UNCHANGED <<qzN, qzStatus>>
    /\ UNCHANGED <<qzIdx, qzTotalScore, qzTotalPoints, qzStored, qzGrade, qzAiFailed>>
    /\ UNCHANGED notQuizVars

\* quiz.js:450-451: no question has the answer's question_id
quiz_SkipAnswer ==
    /\ qzPc = "loop"
    /\ qzIdx < qzN
    /\ qzIdx' = qzIdx + 1
    /\ UNCHANGED <<qzPc, qzN, qzCase, qzProvider, qzResult, qzTotalScore, qzTotalPoints,
                   qzStored, qzGrade, qzStatus, qzAiFailed, qzOut>>
    /\ UNCHANGED notQuizVars

\* quiz.js:453-457: totalPoints += points; await gradeAnswer(...);
\* totalScore += points_earned
quiz_GradeAnswer ==
    /\ qzPc = "loop"
    /\ qzIdx < qzN
    /\ \E q \in QuizCases, provider \in ProviderOutcomes \cup {NoProviderCall} :
        LET r == gradeAnswer(q, provider) IN
        /\ (provider = NoProviderCall) <=> (r.providerCalls = 0)
        /\ qzAiFailed' = (qzAiFailed \/ provider.kind \in {"error", "invalid json"})
        /\ qzTotalPoints' = qzTotalPoints + q.points
        /\ IF r.threw
           THEN /\ QuizFail(ErrGradeAnswer)
                /\ UNCHANGED qzTotalScore
           ELSE /\ qzCase' = q
                /\ qzProvider' = provider
                /\ qzResult' = r
                /\ qzTotalScore' = qzTotalScore + r.points_earned
                /\ qzPc' = "storeAnswer"
                /\ UNCHANGED qzOut
    /\ UNCHANGED <<qzN, qzIdx, qzStored, qzGrade, qzStatus>>
    /\ UNCHANGED notQuizVars

\* quiz.js:460-486: upsert the row of submission_answers
quiz_StoreAnswer ==
    /\ qzPc = "storeAnswer"
    /\ \E stored \in BOOLEAN :
        IF stored
        THEN /\ qzStored' = qzStored + 1
             /\ qzIdx' = qzIdx + 1
             /\ qzPc' = "loop"
             /\ qzCase' = NoCase
             /\ qzProvider' = NoProviderCall
             /\ qzResult' = NoResult
             /\ UNCHANGED qzOut
        ELSE /\ QuizFail(ErrQuizStore)
             /\ UNCHANGED <<qzStored, qzIdx>>
    /\ UNCHANGED <<qzN, qzTotalScore, qzTotalPoints, qzGrade, qzStatus, qzAiFailed>>
    /\ UNCHANGED notQuizVars

\* quiz.js:489  Math.round((totalScore / totalPoints) * 100), or 0
scorePercent(totalScore, totalPoints) ==
    IF totalPoints > 0 THEN (2 * totalScore + totalPoints) \div (2 * totalPoints) ELSE 0

\* quiz.js:489-498: upsert the grade
quiz_InsertGrade ==
    /\ qzPc = "loop"
    /\ qzIdx = qzN
    /\ \E stored \in BOOLEAN :
        IF stored
        THEN /\ qzGrade' = scorePercent(qzTotalScore, qzTotalPoints)
             /\ qzPc' = "setGraded"
             /\ UNCHANGED <<qzOut, qzCase, qzProvider, qzResult>>
        ELSE /\ QuizFail(ErrQuizStore)
             /\ UNCHANGED qzGrade
    /\ UNCHANGED <<qzN, qzIdx, qzTotalScore, qzTotalPoints, qzStored, qzStatus, qzAiFailed>>
    /\ UNCHANGED notQuizVars

\* quiz.js:500-515: UPDATE status to graded, reply 201
quiz_SetGraded ==
    /\ qzPc = "setGraded"
    /\ \E stored \in BOOLEAN :
        IF stored
        THEN /\ qzStatus' = "graded"
             /\ qzPc' = "done"
             /\ qzOut' = "201"
             /\ UNCHANGED <<qzCase, qzProvider, qzResult>>
        ELSE /\ QuizFail(ErrQuizStore)
             /\ UNCHANGED qzStatus
    /\ UNCHANGED <<qzN, qzIdx, qzTotalScore, qzTotalPoints, qzStored, qzGrade, qzAiFailed>>
    /\ UNCHANGED notQuizVars

\* gradeShortAnswer or gradeEssay is called on its own with any student answer
client_Call ==
    /\ qzPc = "idle"
    /\ \E fn \in {"gradeShortAnswer", "gradeEssay"}, studentAnswer \in OptTexts,
          points \in 1..MaxPoints, provider \in ProviderOutcomes \cup {NoProviderCall} :
        LET r == IF fn = "gradeShortAnswer"
                 THEN gradeShortAnswer(studentAnswer, points, provider)
                 ELSE gradeEssay(studentAnswer, points, provider) IN
        /\ (provider = NoProviderCall) <=> (r.providerCalls = 0)
        /\ qzCase' = [NoCase EXCEPT !.type = fn, !.answer_text = studentAnswer,
                                    !.points = points]
        /\ qzProvider' = provider
        /\ qzResult' = r
    /\ qzPc' = "client done"
    /\ UNCHANGED <<qzN, qzIdx, qzTotalScore, qzTotalPoints, qzStored, qzGrade, qzStatus,
                   qzAiFailed, qzOut>>
    /\ UNCHANGED notQuizVars

NextQuiz ==
    \/ quiz_Submit
    \/ quiz_SkipAnswer
    \/ quiz_GradeAnswer
    \/ quiz_StoreAnswer
    \/ quiz_InsertGrade
    \/ quiz_SetGraded
    \/ client_Call


(***************************************************************************)
(* Assignment context assembled for the AI client (grading-service.js)     *)
(***************************************************************************)
\* a || b on nullable strings: null and '' are falsy
orElse(a, b) == IF a.present /\ a.text # <<>> THEN a ELSE b

\* assignments.total_points as the row holds it, and total_points || 100
PointValues == {[present |-> FALSE, val |-> 0]} \cup [present : {TRUE}, val : 0..MaxPoints]

pointsOrDefault(p) == IF p.present /\ p.val # 0 THEN p.val ELSE 100

\* the columns of the assignments row both callers select
AssignmentRows ==
    [reference_text_extracted : OptTexts, reference_answer : OptTexts,
     total_points : PointValues]

NoRow ==
    [reference_text_extracted |-> Undefined, reference_answer |-> Undefined,
     total_points |-> [present |-> FALSE, val |-> 0]]

\* grading-service.js:85
\*   submission.reference_text_extracted || submission.reference_answer || ''
referenceOfSubmission(row) ==
    orElse(orElse(row.reference_text_extracted, row.reference_answer), Defined(<<>>)).text

\* grading-service.js:192  assignment.reference_answer || ''
referenceOfAssignment(row) == orElse(row.reference_answer, Defined(<<>>)).text

InitContext ==
    /\ cxPc = "idle"
    /\ cxRow \in AssignmentRows
    /\ cxCaller = ""
    /\ cxReference = <<>>
    /\ cxTotal = 0

IdleContext ==
    /\ cxPc = "off"
    /\ cxRow = NoRow
    /\ cxCaller = ""
    /\ cxReference = <<>>
    /\ cxTotal = 0

\* grading-service.js:84-94: gradeSubmissionById calls gradeSubmission
context_GradeById ==
    /\ cxPc = "idle"
    /\ cxPc' = "done"
    /\ cxCaller' = "gradeSubmissionById"
    /\ cxReference' = referenceOfSubmission(cxRow)
    /\ cxTotal' = pointsOrDefault(cxRow.total_points)
    /\ UNCHANGED cxRow
    /\ UNCHANGED notContextVars

\* grading-service.js:187-194: batchGradeAssignment calls batchGrade
context_Batch ==
    /\ cxPc = "idle"
    /\ cxPc' = "done"
    /\ cxCaller' = "batchGradeAssignment"
    /\ cxReference' = referenceOfAssignment(cxRow)
    /\ cxTotal' = pointsOrDefault(cxRow.total_points)
    /\ UNCHANGED cxRow
    /\ UNCHANGED notContextVars

NextContext == context_GradeById \/ context_Batch

(***************************************************************************)
(* transaction(callback) (plugins/database.js)                             *)
(***************************************************************************)
MaxStatements == 3

\* the callbacks: the statements they send on the client
Callbacks == UNION {[1..n -> {"INSERT", "UPDATE"}] : n \in 0..MaxStatements}

ErrConnect == "pool.connect failed"

ErrBegin == "BEGIN failed"

ErrCommit == "COMMIT failed"

ErrRollback == "ROLLBACK failed"

ErrStatement == "statement of the callback failed"

ErrCallback == "callback threw"

\* database.js:73-75: await client.query('ROLLBACK'); throw err
thrownByCatch(err, rollbackOk) == IF rollbackOk THEN err ELSE ErrRollback

InitTx ==
    /\ txPc = "idle"
    /\ txCallback \in Callbacks
    /\ txIdx = 0
    /\ txLog = <<>>
    /\ txCb = ""
    /\ txCaught = ""
    /\ txAcquired = FALSE
    /\ txReleased = 0
    /\ txOut = ""

IdleTx ==
    /\ txPc = "off"
    /\ txCallback = <<>>
    /\ txIdx = 0
    /\ txLog = <<>>
    /\ txCb = ""
    /\ txCaught = ""
    /\ txAcquired = FALSE
    /\ txReleased = 0
    /\ txOut = ""

\* the try block is left for the catch block with error e
Catch(e) ==
    /\ txCaught' = e
    /\ txPc' = "rollback"

\* database.js:66  const client = await pool.connect()
tx_Connect ==
    /\ txPc = "idle"
    /\ \E ok \in BOOLEAN :
        IF ok
        THEN /\ txAcquired' = TRUE
             /\ txPc' = "begin"
             /\ UNCHANGED txOut
        ELSE /\ txOut' = ErrConnect
             /\ txPc' = "done"
             /\ UNCHANGED txAcquired
    /\ UNCHANGED <<txCallback, txIdx, txLog, txCb, txCaught, txReleased>>
    /\ UNCHANGED notTxVars

\* database.js:68  await client.query('BEGIN')
tx_Begin ==
    /\ txPc = "begin"
    /\ txLog' = Append(txLog, "BEGIN")
    /\ \E ok \in BOOLEAN :
        IF ok
        THEN txPc' = "callback" /\ UNCHANGED txCaught
        ELSE Catch(ErrBegin)
    /\ UNCHANGED <<txCallback, txIdx, txCb, txAcquired, txReleased, txOut>>
    /\ UNCHANGED notTxVars

\* database.js:69  the callback sends its next statement on the client
tx_CallbackQuery ==
    /\ txPc = "callback"
    /\ txIdx < Len(txCallback)
    /\ txLog' = Append(txLog, txCallback[txIdx + 1])
    /\ \E ok \in BOOLEAN :
        IF ok
        THEN /\ txIdx' = txIdx + 1
             /\ UNCHANGED <<txPc, txCb, txCaught>>
        ELSE /\ txCb' = ErrStatement
             /\ Catch(ErrStatement)
             /\ UNCHANGED txIdx
    /\ UNCHANGED <<txCallback, txAcquired, txReleased, txOut>>
    /\ UNCHANGED notTxVars

\* database.js:69  the callback returns, or throws an error of its own
tx_CallbackEnd ==
    /\ txPc = "callback"
    /\ txIdx = Len(txCallback)
    /\ \E threw \in BOOLEAN :
        IF threw
        THEN /\ txCb' = ErrCallback
             /\ Catch(ErrCallback)
        ELSE /\ txCb' = "returned"
             /\ txPc' = "commit"
             /\ UNCHANGED txCaught
    /\ UNCHANGED <<txCallback, txIdx, txLog, txAcquired, txReleased, txOut>>
    /\ UNCHANGED notTxVars

\* database.js:70-71  await client.query('COMMIT'); return result
tx_Commit ==
    /\ txPc = "commit"
    /\ txLog' = Append(txLog, "COMMIT")
    /\ \E ok \in BOOLEAN :
        IF ok
        THEN /\ txOut' = "returned"
             /\ txPc' = "finally"
             /\ UNCHANGED txCaught
        ELSE /\ Catch(ErrCommit)
             /\ UNCHANGED txOut
    /\ UNCHANGED <<txCallback, txIdx, txCb, txAcquired, txReleased>>
    /\ UNCHANGED notTxVars

\* database.js:72-74  the catch block
tx_Rollback ==
    /\ txPc = "rollback"
    /\ txLog' = Append(txLog, "ROLLBACK")
    /\ \E ok \in BOOLEAN : txOut' = thrownByCatch(txCaught, ok)
    /\ txPc' = "finally"
    /\ UNCHANGED <<txCallback, txIdx, txCb, txCaught, txAcquired, txReleased>>
    /\ UNCHANGED notTxVars

\* database.js:75-77  finally: client.release(), then the pending return or
\* throw completes
tx_Release ==
    /\ txPc = "finally"
    /\ txReleased' = txReleased + 1
    /\ txPc' = "done"
    /\ UNCHANGED <<txCallback, txIdx, txLog, txCb, txCaught, txAcquired, txOut>>
    /\ UNCHANGED notTxVars

NextTx ==
    \/ tx_Connect
    \/ tx_Begin
    \/ tx_CallbackQuery
    \/ tx_CallbackEnd
    \/ tx_Commit
    \/ tx_Rollback
    \/ tx_Release

(***************************************************************************)
(* POST /api/v1/batch/grade (routes/batch.js)                              *)
(***************************************************************************)
\* audit-service.js:202-208  module.exports
auditServiceExports ==
    {"logAction", "getAuditLogs", "exportUserAuditHistory", "anonymizeUserData",
     "AUDIT_ACTIONS"}

\* database.js:81-86  the properties of fastify.db
dbProperties == {"query", "getClient", "transaction", "pool"}

\* batch.js:70  auditService.ACTIONS.GRADE_BATCH: reading a property of
\* undefined throws a TypeError
argumentsThrow == "ACTIONS" \notin auditServiceExports

\* audit-service.js:21 and grading-service.js:153  `fastify.db.query(...)`
\* where the caller passed fastify.db as `fastify`
dbOfArgumentThrows == "db" \notin dbProperties

\* batch.js:45-53  the ids the status filter selects
queuedIds(subs, force) ==
    {s \in Subs : subs[s] \in (IF force THEN {"pending", "graded", "failed"}
                               ELSE {"pending"})}

RouteStatuses == {"draft", "pending", "submitted", "graded", "failed"}

InitRoute ==
    /\ rtPc = "idle"
    /\ rtCase \in {"missing", "foreign", "no rubric", "ok"}
    /\ rtForce \in BOOLEAN
    /\ rtSubs \in [Subs -> RouteStatuses]
    /\ rtQueued = {}
    /\ rtAudit = ""
    /\ rtLaunched = FALSE
    /\ rtBatch = ""
    /\ rtReply = 0

IdleRoute ==
    /\ rtPc = "off"
    /\ rtCase = ""
    /\ rtForce = FALSE
    /\ rtSubs = <<>>
    /\ rtQueued = {}
    /\ rtAudit = ""
    /\ rtLaunched = FALSE
    /\ rtBatch = ""
    /\ rtReply = 0

\* batch.js:20-64: the checks of the request and the selection
route_Begin ==
    /\ rtPc = "idle"
    /\ IF rtCase # "ok" \/ queuedIds(rtSubs, rtForce) = {}
       THEN /\ rtReply' = (CASE rtCase = "missing" -> 404
                             [] rtCase = "foreign" -> 403
                             [] rtCase = "no rubric" -> 400
                             [] OTHER -> 200)
            /\ rtPc' = "done"
            /\ UNCHANGED rtQueued
       ELSE /\ rtQueued' = queuedIds(rtSubs, rtForce)
            /\ rtPc' = "queued"
            /\ UNCHANGED rtReply
    /\ UNCHANGED <<rtCase, rtForce, rtSubs, rtAudit, rtLaunched, rtBatch>>
    /\ UNCHANGED notRouteVars

\* batch.js:67-96: await auditService.logAction(...), then the batch is
\* started without await and 202 is replied; an error thrown on the way
\* rejects the handler, which fastify answers with 500. The detached call
\* runs as the batch_* actions of Spec do, unless it rejects at once.
route_AuditAndLaunch ==
    /\ rtPc = "queued"
    /\ \E written \in BOOLEAN :
        LET auditThrew == argumentsThrow \/ dbOfArgumentThrows \/ ~written IN
        /\ rtAudit' = IF auditThrew THEN "failed" ELSE "written"
        /\ rtLaunched' = ~auditThrew
        /\ rtBatch' = IF auditThrew THEN ""
                      ELSE IF dbOfArgumentThrows THEN "rejected" ELSE "running"
        /\ rtReply' = IF auditThrew THEN 500 ELSE 202
    /\ rtPc' = "done"
    /\ UNCHANGED <<rtCase, rtForce, rtSubs, rtQueued>>
    /\ UNCHANGED notRouteVars

NextRoute == route_Begin \/ route_AuditAndLaunch

Init == InitOrch /\ IdleRetry /\ IdleAI /\ IdleBatch /\ IdleQuiz /\ IdleContext /\ IdleTx /\ IdleRoute

Spec == Init /\ [][Next]_vars

RetryInit == InitRetry /\ IdleAI /\ IdleBatch /\ IdleOrch /\ IdleQuiz /\ IdleContext /\ IdleTx /\ IdleRoute

SpecRetry == RetryInit /\ [][NextRetry]_vars

AIInit == InitAI /\ IdleRetry /\ IdleBatch /\ IdleOrch /\ IdleQuiz /\ IdleContext /\ IdleTx /\ IdleRoute

SpecAI == AIInit /\ [][NextAI]_vars

BatchInit == InitBatch /\ IdleRetry /\ IdleAI /\ IdleOrch /\ IdleQuiz /\ IdleContext /\ IdleTx /\ IdleRoute

SpecBatch == BatchInit /\ [][NextBatch]_vars

\* every outstanding call settles, every timer fires, the loop goes on
\* two batchGradeAssignment calls, and no other grading call
BatchCallNext ==
    \/ \E b \in BatchCalls : batch_Begin(b)
    \/ \E b \in BatchCalls : batch_LoadAssignment(b)
    \/ \E b \in BatchCalls : batch_Select(b)
    \/ \E b \in BatchCalls : batch_AI(b)
    \/ \E b \in BatchCalls : batch_StoreError(b)
    \/ \E b \in BatchCalls : batch_StoreGrade(b)

TwoBatchInit ==
    /\ InitStore /\ InitCalls({}, BatchCalls) /\ InitLocals
    /\ IdleRetry /\ IdleAI /\ IdleBatch /\ IdleQuiz /\ IdleContext /\ IdleTx /\ IdleRoute

SpecTwoBatches == TwoBatchInit /\ [][BatchCallNext]_vars

SpecBatchFair == BatchInit /\ [][NextBatch]_vars /\ WF_vars(NextBatch)

QuizInit == InitQuiz /\ IdleRetry /\ IdleAI /\ IdleBatch /\ IdleOrch /\ IdleContext /\ IdleTx /\ IdleRoute

SpecQuiz == QuizInit /\ [][NextQuiz]_vars

ContextInit ==
    InitContext /\ IdleRetry /\ IdleAI /\ IdleBatch /\ IdleOrch /\ IdleQuiz /\ IdleTx /\ IdleRoute

SpecContext == ContextInit /\ [][NextContext]_vars

TxInit ==
    InitTx /\ IdleRetry /\ IdleAI /\ IdleBatch /\ IdleOrch /\ IdleQuiz /\ IdleContext /\ IdleRoute

SpecTx == TxInit /\ [][NextTx]_vars

RouteInit ==
    InitRoute /\ IdleRetry /\ IdleAI /\ IdleBatch /\ IdleOrch /\ IdleQuiz
    /\ IdleContext /\ IdleTx

SpecRoute == RouteInit /\ [][NextRoute]_vars

\* the handler runs to its reply
SpecRouteFair == RouteInit /\ [][NextRoute]_vars /\ WF_vars(NextRoute)

(***************************************************************************)
(* Properties of the orchestrator (Spec)                                   *)
(***************************************************************************)
hasGrade(s) == gradeRows(grades, s) # {}

gradedByHand(s) == \E g \in gradeRows(grades, s) : g.id = ManualGrader

\* C1: under any interleaving of gradeSubmissionById and
\* batchGradeAssignment calls, a submission has a Grade row if and only if
\* its status is graded.
C1_GradeIffGraded ==
    \A s \in Subs : hasGrade(s) <=> status[s] = "graded"

\* C2: a gradeSubmissionById call made when its submission already has a
\* Grade from an earlier successful grading fails with the already-graded
\* error, having made no store write and no AI call; the submission keeps
\* exactly one Grade row, which never changes, and no step of the call
\* changes the submission's status.
C2_SecondCallRejected ==
    /\ [](\A c \in Calls : (cSawGrade[c] /\ ~gradedByHand(cSub[c])) =>
            /\ cWrote[c] = <<>>
            /\ cAiCalls[c] = 0
            /\ Cardinality(gradeRows(grades, cSub[c])) = 1
            /\ cPc[c] = "done" => cOut[c] = ErrAlreadyGraded)
    /\ [][\A c \in Calls :
            (cSawGrade[c] /\ ~gradedByHand(cSub[c]) /\ cPc'[c] # cPc[c]) =>
            /\ status' = status
            /\ grades' = grades
            /\ content' = content]_vars
    /\ [][\A s \in Subs : hasGrade(s) => gradeRows(grades', s) = gradeRows(grades, s)]_vars

C2_Witness ==
    \E c, d \in Calls :
        /\ c # d
        /\ cSub[c] = cSub[d]
        /\ cOut[d] = "success"
        /\ cSawGrade[c]
        /\ cPc[c] = "done"
        /\ cOut[c] = ErrAlreadyGraded
        /\ status[cSub[c]] = "graded"

\* C3: when two gradeSubmissionById calls race on one submission, the call
\* whose insert hits the unique constraint (and whose own status write
\* succeeds) leaves exactly one Grade row, the winner's, and reports the
\* conflict to its caller as the already-graded error.
C3_RaceLoserAlreadyGraded ==
    \A c \in Calls :
        (/\ cPc[c] = "done"
         /\ cErr[c] = ErrUnique
         /\ cOut[c] # ErrStoreFailed
         /\ \E g \in gradeRows(grades, cSub[c]) : g.id \in Calls \ {c}) =>
            /\ Cardinality(gradeRows(grades, cSub[c])) = 1
            /\ cOut[c] = ErrAlreadyGraded

\* C4: when the AI call or the transaction of a call threw, the call has
\* written status failed, stored no Grade row, and threw the original error
\* of the failing step.
C4_FailureRethrowsOriginal ==
    \A c \in Calls : (cPc[c] = "done" /\ cErr[c] # "") =>
        /\ \E i \in 1..Len(cWrote[c]) : cWrote[c][i] = "failed"
        /\ \A g \in grades : g.id # c
        /\ cOut[c] = cErr[c]

\* C5: the write of status grading completes before the AI client is
\* invoked; while the AI call is in flight (also after a crash then) the
\* status is no longer the one before grading, is never graded without a
\* Grade row, and, when no other grading operation ran on the submission
\* meanwhile, is grading with no Grade row.
C5_GradingBeforeAI ==
    \A c \in Calls :
        /\ cAiCalls[c] > 0 => \E i \in 1..Len(cWrote[c]) : cWrote[c][i] = "grading"
        /\ cPc[c] = "ai" =>
              /\ cWrote[c][Len(cWrote[c])] = "grading"
              /\ status[cSub[c]] \in {"grading", "graded", "failed"}
              /\ status[cSub[c]] = "graded" => hasGrade(cSub[c])
              /\ ~cOverlap[c] =>
                    /\ status[cSub[c]] = "grading"
                    /\ ~hasGrade(cSub[c])

C5_Witness ==
    /\ crashed
    /\ \E c \in Calls :
          /\ cPc[c] = "ai"
          /\ ~cOverlap[c]
          /\ status[cSub[c]] = "grading"
          /\ ~hasGrade(cSub[c])

\* C7: once the assignment and the submissions are loaded,
\* batchGradeAssignment returns counts with graded + failed = total = the
\* number of selected submissions, whatever fails on individual submissions.
C7_BatchNeverThrows ==
    \A b \in BatchCalls : (bPc[b] = "done" /\ bOut[b] # ErrAssignmentNotFound) =>
        /\ bOut[b] \in {"returned", "returned empty"}
        /\ bGraded[b] + bFailed[b] = Len(bSel[b])

(***************************************************************************)
(* Properties of withRetry (SpecRetry)                                     *)
(***************************************************************************)
isTransientFailure(out) == ~out.ok /\ out.status \notin {400, 401}

AllTransient(calls, n) == \A i \in 1..n : isTransientFailure(calls[i])

\* the waits the retry policy prescribes after failures 1..n: 2^i seconds
ExpectedDelays(n) == [i \in 1..n |-> (2 ^ i) * 1000]

\* C8: when fn fails transiently k-1 times and succeeds on invocation k <= N,
\* withRetry returns that result after exactly k invocations, having waited
\* 2^i seconds after the i-th failure (2s, 4s for N = 3); when all N
\* invocations fail transiently it throws the last error after exactly N
\* invocations and takes no wait after the last one.
C8_RetryBackoff ==
    LET k == Len(wrCalls) IN
    /\ (k >= 1 /\ wrCalls[k].ok /\ AllTransient(wrCalls, k - 1)) =>
          /\ k <= wrMax
          /\ wrPc = "returned"
          /\ wrResult = k
          /\ wrDelays = ExpectedDelays(k - 1)
          /\ ~ENABLED withRetry_Invoke
    /\ (k >= 1 /\ k = wrMax /\ AllTransient(wrCalls, k)) =>
          /\ wrPc \in {"loop", "thrown"}
          /\ wrDelays = ExpectedDelays(k - 1)
          /\ ~ENABLED withRetry_Invoke
          /\ ~ENABLED withRetry_Wake
          /\ wrPc = "thrown" => wrThrown = [id |-> k, status |-> wrCalls[k].status]
          /\ wrPc = "loop" => ENABLED withRetry_Exhausted
    /\ (wrMax = 3 /\ k = 3 /\ wrPc \in {"returned", "thrown"}) =>
          wrDelays = <<2000, 4000>>

C8_Witness ==
    /\ wrMax = 3
    /\ wrPc = "returned"
    /\ Len(wrCalls) = 3
    /\ AllTransient(wrCalls, 2)

\* C9: an invocation failing with status 400 or 401 is the last one: withRetry
\* has thrown that very error, and no backoff wait follows it.
C9_NoRetryOnClientError ==
    \A i \in 1..Len(wrCalls) :
        (~wrCalls[i].ok /\ wrCalls[i].status \in {400, 401}) =>
            /\ i = Len(wrCalls)
            /\ wrPc = "thrown"
            /\ wrThrown = [id |-> i, status |-> wrCalls[i].status]
            /\ Len(wrDelays) = i - 1
            /\ ~ENABLED withRetry_Invoke
            /\ ~ENABLED withRetry_Wake

C9_Witness ==
    /\ wrMax = 3
    /\ wrPc = "thrown"
    /\ Len(wrCalls) = 2
    /\ wrCalls[2].status = 400
    /\ wrThrown.id = 2

(***************************************************************************)
(* Properties of gradeSubmission (SpecAI)                                  *)
(***************************************************************************)
scoreInRange(resp, totalPoints) ==
    /\ resp.json = "object"
    /\ resp.score.type = "number"
    /\ 0 <= resp.score.val
    /\ resp.score.val <= totalPoints

\* C10: gradeSubmission returns only for a numeric overall_score within
\* [0, totalPoints], and then returns that score; for a missing, non-numeric,
\* negative or too large overall_score it throws.
C10_ScoreBounds ==
    /\ aiPc = "returned" =>
          /\ scoreInRange(aiResponse, aiTotal)
          /\ aiOut.ok
          /\ aiOut.score = aiResponse.score.val
    /\ (aiPc \in {"returned", "thrown"} /\ ~scoreInRange(aiResponse, aiTotal)) =>
          /\ aiPc = "thrown"
          /\ ~aiOut.ok

C10_Witness ==
    /\ aiPc = "returned"
    /\ aiOut.score = aiTotal
    /\ aiProviderCalls = 1

(***************************************************************************)
(* Properties of batchGrade (SpecBatch)                                    *)
(***************************************************************************)
\* C6: batchGrade returns one entry per input submission, in input order,
\* each tagged with the id of the submission it was computed for; an entry
\* is an error entry exactly when that submission's own gradeSubmission call
\* failed, whatever the completion order and the other calls' outcomes.
C6_BatchIsolation ==
    bgPc = "returned" =>
        /\ Len(bgResults) = Len(bgSubs)
        /\ \A j \in 1..Len(bgSubs) :
              /\ bgResults[j].submission_id = bgSubs[j].id
              /\ (bgResults[j].error # "") <=> (bgOutcome[j] = "rejected")
              /\ (bgResults[j].error = "") <=> (bgOutcome[j] = "fulfilled")
              /\ bgResults[j].answer = bgSubs[j].content

\* five submissions, the third fails, and the calls complete out of order
C6_Witness ==
    /\ bgPc = "returned"
    /\ Len(bgSubs) = 5
    /\ bgOrder = <<3, 5, 1, 4, 2>>
    /\ \A j \in 1..5 : (bgOutcome[j] = "rejected") <=> (j = 3)
    /\ {j \in 1..5 : bgResults[j].error # ""} = {3}

(***************************************************************************)
(* Content resolution and lookup in gradeSubmissionById (Spec)             *)
(***************************************************************************)
wroteBy(c, w) == \E i \in 1..Len(cWrote[c]) : cWrote[c][i] = w

\* C11: a call whose text extraction failed (the submission had empty
\* content and a PDF reference) has ended with the extraction error, has made
\* no AI call and has created no Grade row.
C11_ExtractionFailure ==
    \A c \in Calls : cExtract[c] = "failed" =>
        /\ cPc[c] = "done"
        /\ cOut[c] = ErrExtract
        /\ cAiCalls[c] = 0
        /\ ~wroteBy(c, "grade")
        /\ \A g \in grades : g.id # c

C11_Witness ==
    \E c \in Calls :
        /\ cExtract[c] = "failed"
        /\ cPc[c] = "done"
        /\ cOut[c] = ErrExtract
        /\ content[cSub[c]] = ""
        /\ pdfUrl[cSub[c]]
        /\ ~hasGrade(cSub[c])

\* C12: a call extracts only for a submission with a PDF reference; when the
\* extraction succeeds the call's content write stores exactly the extracted
\* text, and that text is the student answer of its AI call; stored
\* non-empty content never changes, and a call that loads non-empty content
\* goes on to the existing-Grade check without extracting.
C12_ExtractedTextUsed ==
    /\ [](\A c \in Calls :
            /\ wroteBy(c, "content") => cExtract[c] = "extracted"
            /\ cExtract[c] # "" => pdfUrl[cSub[c]]
            /\ (cPc[c] = "ai" /\ cExtract[c] = "extracted") =>
                  /\ cContent[c] = "pdf text"
                  /\ content[cSub[c]] = cContent[c])
    /\ [][\A c \in Calls :
            (cPc[c] = "saveContent" /\ cPc'[c] = "check") =>
                content'[cSub[c]] = cContent[c]]_vars
    /\ [][\A s \in Subs : content[s] # "" => content'[s] = content[s]]_vars
    /\ [][\A c \in Calls :
            (cPc[c] = "load" /\ cPc'[c] # "load" /\ cSub[c] \in Subs) =>
                (content[cSub[c]] # "" =>
                    /\ cPc'[c] = "check"
                    /\ cExtract'[c] = ""
                    /\ cContent'[c] = content[cSub[c]])]_vars

C12_Witness ==
    \E c, d \in Calls :
        /\ c # d
        /\ cSub[c] = cSub[d]
        /\ cExtract[d] = "extracted"
        /\ cOut[d] = "success"
        /\ cExtract[c] = ""
        /\ cOut[c] = ErrAlreadyGraded
        /\ pdfUrl[cSub[c]]
        /\ content[cSub[c]] = "pdf text"

\* C16: a call with an id that no submission row has ends at the lookup
\* with the not-found error, having made no store write, no text extraction
\* and no AI call.
C16_NotFound ==
    \A c \in Calls : (cPc[c] # "idle" /\ cSub[c] = MissingId) =>
        /\ cPc[c] \in {"load", "done"}
        /\ cPc[c] = "done" => cOut[c] = ErrNotFound
        /\ cWrote[c] = <<>>
        /\ cExtract[c] = ""
        /\ cAiCalls[c] = 0

C16_Witness ==
    \E c \in Calls :
        /\ cSub[c] = MissingId
        /\ cPc[c] = "done"
        /\ cOut[c] = ErrNotFound
        /\ grades = {}
        /\ \A s \in Subs : status[s] \in {"pending", "submitted"}

(***************************************************************************)
(* Status transitions, batch selection and retries (Spec)                  *)
(***************************************************************************)
statusRank(st) ==
    CASE st \in {"draft", "pending", "submitted"} -> 0
      [] st = "grading" -> 1
      [] OTHER -> 2

allowedMove(a, b) ==
    \/ a = b
    \/ statusRank(b) > statusRank(a)
    \/ a = "failed" /\ b = "grading"

\* C17: every step leaves each submission's status where it is, moves it
\* forward along pending/submitted -> grading -> graded or failed, or moves
\* it from failed to grading; a status graded never changes.
C17_StatusMonotonic ==
    [][\A s \in Subs : allowedMove(status[s], status'[s])]_vars

selectedIds(b) == {bSel[b][j].id : j \in 1..Len(bSel[b])}

\* C18: the rows batchGradeAssignment selects are exactly the submissions
\* with status pending or submitted and no Grade, and once it has returned
\* its counts each selected submission has status graded or failed.
C18_BatchSelectsPendingAndSubmitted ==
    /\ [][\A b \in BatchCalls : (bPc[b] = "select" /\ bPc'[b] # "select") =>
            {bSel'[b][j].id : j \in 1..Len(bSel'[b])} =
                {s \in Subs : status[s] \in {"pending", "submitted"} /\ ~hasGrade(s)}]_vars
    /\ [](\A b \in BatchCalls : bOut[b] = "returned" =>
            \A s \in selectedIds(b) : status[s] \in {"graded", "failed"})

\* C19: when the transaction that persists the grade of one result of a
\* batch fails, that step increments failed, sets that submission's status
\* to failed, leaves the rows of every other submission alone, and the loop
\* goes on to the next result or returns.
C19_BatchPersistFailureMarksFailed ==
    [][\A b \in BatchCalls :
        (/\ bPc[b] = "store"
         /\ bResults[b][bIdx[b]].error = ""
         /\ bFailed'[b] = bFailed[b] + 1) =>
            LET s == bResults[b][bIdx[b]].submission_id IN
            /\ status'[s] = "failed"
            /\ \A o \in Subs \ {s} :
                  /\ status'[o] = status[o]
                  /\ gradeRows(grades', o) = gradeRows(grades, o)
            /\ bPc'[b] = "done" => bOut'[b] = "returned"]_vars

\* C20: a call that marked its submission failed because the provider's
\* response was malformed has had the provider call attempted 3 times (each
\* AI client invocation issues one provider call).
C20_RetryWrapsAICalls ==
    \A c \in Calls :
        (/\ cPc[c] = "done"
         /\ cErr[c] = "Grading failed: Invalid score in AI response"
         /\ wroteBy(c, "failed")) =>
            cAiCalls[c] = DefaultMaxRetries

(***************************************************************************)
(* Properties of the quiz answer grader (SpecQuiz)                         *)
(***************************************************************************)
\* a text after trimming and case folding
folded(s) == toLowerCase(trim(s))

matchesCorrectAnswer(q) ==
    /\ q.correct_answers.present
    /\ \E i \in 1..Len(q.correct_answers.list) :
          folded(q.correct_answers.list[i]) = folded(orEmpty(q.answer_text))

\* C13: for a short_answer question gradeAnswer invokes gradeShortAnswer
\* exactly when no entry of correct_answers equals the student's answer
\* after trimming and case folding and a reference answer is present; on a
\* match it returns full points, is_correct true, with no AI call; with
\* neither it returns zero points, is_correct false, with no AI call.
C13_ShortAnswerFallback ==
    (qzPc = "storeAnswer" /\ qzCase.type = "short_answer") =>
        /\ (qzResult.aiClient = "gradeShortAnswer") <=>
              (~matchesCorrectAnswer(qzCase) /\ qzCase.hasReference)
        /\ qzResult.aiClient \in {"", "gradeShortAnswer"}
        /\ qzResult.aiClient = "" => qzResult.providerCalls = 0
        /\ matchesCorrectAnswer(qzCase) =>
              /\ qzResult.points_earned = 100 * qzCase.points
              /\ qzResult.is_correct = "true"
        /\ (~matchesCorrectAnswer(qzCase) /\ ~qzCase.hasReference) =>
              /\ qzResult.points_earned = 0
              /\ qzResult.is_correct = "false"

C13_Witness ==
    /\ qzPc = "storeAnswer"
    /\ qzCase.type = "short_answer"
    /\ qzCase.hasReference
    /\ qzCase.answer_text = Defined(<<"A", " ">>)
    /\ qzCase.correct_answers.list = <<<<"a", "a">>, <<" ", "A">>>>
    /\ qzResult.is_correct = "true"
    /\ qzResult.points_earned = 100 * qzCase.points
    /\ qzResult.aiClient = ""

aiCallFailed == qzProvider.kind \in {"error", "invalid json"}

\* C14: when the AI call made for a short_answer or essay answer fails,
\* gradeAnswer returns is_correct false, zero points and the feedback that
\* the instructor will review; the handler never ends with an error of
\* gradeAnswer, and a submission that had such a failure and no failing
\* store query has handled all its answers and ends with reply 201, a Grade
\* and status graded.
C14_AIFailureDoesNotPropagate ==
    /\ (qzPc = "storeAnswer" /\ aiCallFailed) =>
          /\ qzCase.type \in {"short_answer", "essay"}
          /\ ~qzResult.threw
          /\ qzResult.is_correct = "false"
          /\ qzResult.points_earned = 0
          /\ qzResult.feedback = ReviewFeedback
    /\ qzOut # ErrGradeAnswer
    /\ (qzPc = "done" /\ qzAiFailed /\ qzOut # ErrQuizStore) =>
          /\ qzOut = "201"
          /\ qzIdx = qzN
          /\ qzGrade >= 0
          /\ qzStatus = "graded"

C14_Witness ==
    /\ qzPc = "done"
    /\ qzAiFailed
    /\ qzOut = "201"
    /\ qzStatus = "graded"
    /\ qzStored = MaxAnswers
    /\ qzTotalScore > 0
    /\ qzGrade > 0

\* missing, empty, or nothing but whitespace
noAnswer(v) == ~v.present \/ \A i \in 1..Len(v.text) : v.text[i] = " "

\* C15: gradeShortAnswer and gradeEssay called with a missing, empty or
\* whitespace-only student answer return score 0 and percentage 0
\* (gradeEssay also is_correct false) and issue no provider call; gradeAnswer
\* for an essay question with such an answer returns zero points without
\* calling the AI client.
C15_BlankAnswerNoAICall ==
    /\ (qzPc = "client done" /\ noAnswer(qzCase.answer_text)) =>
          /\ ~qzResult.threw
          /\ qzResult.score = 0
          /\ qzResult.percentage = 0
          /\ qzResult.providerCalls = 0
          /\ qzProvider = NoProviderCall
          /\ qzCase.type = "gradeEssay" => qzResult.is_correct = "false"
    /\ (qzPc = "storeAnswer" /\ qzCase.type = "essay" /\ noAnswer(qzCase.answer_text)) =>
          /\ qzResult.points_earned = 0
          /\ qzResult.aiClient = ""
          /\ qzResult.providerCalls = 0

C15_Witness ==
    /\ qzPc = "client done"
    /\ qzCase.type = "gradeEssay"
    /\ qzCase.answer_text = Defined(<<" ", " ">>)
    /\ qzResult.score = 0
    /\ qzResult.providerCalls = 0

(***************************************************************************)
(* Extraction failures, drafts and the already-graded guard (Spec)         *)
(***************************************************************************)
\* C21: after a call that failed because the text extraction failed, the
\* submission's status is failed.
C21_ExtractionFailureMarksFailed ==
    \A c \in Calls : (cPc[c] = "done" /\ cExtract[c] = "failed") =>
        status[cSub[c]] = "failed"

\* C27: no step of a gradeSubmissionById call moves a draft submission to
\* grading, and no Grade row is created for a submission that is a draft.
C27_DraftsNotGraded ==
    [][\A s \in Subs : status[s] = "draft" =>
          /\ status'[s] = "draft"
          /\ gradeRows(grades', s) = gradeRows(grades, s)]_vars

\* C28: a call that ended with the already-graded error has made no store
\* write, also when the Grade was made by hand for a submission with empty
\* content and a PDF reference.
C28_AlreadyGradedWritesNothing ==
    \A c \in Calls : (cPc[c] = "done" /\ cOut[c] = ErrAlreadyGraded) =>
        /\ cWrote[c] = <<>>
        /\ gradedByHand(cSub[c]) /\ pdfUrl[cSub[c]] => content[cSub[c]] = ""

(***************************************************************************)
(* Pacing of batchGrade (SpecBatchFair)                                    *)
(***************************************************************************)
callStarted(j) == j \in bgPending \/ bgOutcome[j] # "none"

\* the group of position j, counted from 0
groupIndex(j) == (j - 1) \div BATCH_SIZE

\* C22: at most 5 gradeSubmission calls are outstanding; a call of a later
\* group is started only after every call of the earlier groups has settled
\* and the pauses before its group have elapsed; a batch of n >= 1
\* submissions has taken ceil(n/5) - 1 pauses when it returns, every call
\* has settled then, and batchGrade does return.
C22_GroupsOfFive ==
    /\ [](Cardinality(bgPending) <= 5)
    /\ [](\A j \in 1..Len(bgSubs) : callStarted(j) =>
            /\ bgPauses >= groupIndex(j)
            /\ \A i \in 1..Len(bgSubs) :
                  groupIndex(i) < groupIndex(j) => bgOutcome[i] # "none")
    /\ [](bgPc = "returned" =>
            /\ bgPending = {}
            /\ \A j \in 1..Len(bgSubs) : bgOutcome[j] # "none"
            /\ Len(bgSubs) >= 1 => bgPauses = ((Len(bgSubs) + 4) \div 5) - 1)
    /\ <>(bgPc = "returned")

C22_Witness ==
    /\ bgPc = "returned"
    /\ Len(bgSubs) = 6
    /\ bgPauses = 1
    /\ bgOrder = <<6>>

(***************************************************************************)
(* Two concurrent batchGradeAssignment calls (SpecTwoBatches)              *)
(***************************************************************************)
\* the batch calls whose loop has handled submission s
handledBy(s) == {b \in BatchCalls : bTally[b][s] # ""}

CallStep(c) ==
    \/ gradeById_Load(c)
    \/ gradeById_Extract(c)
    \/ gradeById_SaveContent(c)
    \/ gradeById_CheckGraded(c)
    \/ gradeById_SetGrading(c)
    \/ gradeById_AI(c)
    \/ gradeById_Transaction(c)
    \/ gradeById_MarkFailed(c)

\* gradeSubmissionById calls only, and the process does not crash
CallNext ==
    \/ \E c \in Calls, s \in Subs \cup {MissingId} : gradeById_Begin(c, s)
    \/ \E c \in Calls : gradeById_Load(c)
    \/ \E c \in Calls : gradeById_Extract(c)
    \/ \E c \in Calls : gradeById_SaveContent(c)
    \/ \E c \in Calls : gradeById_CheckGraded(c)
    \/ \E c \in Calls : gradeById_SetGrading(c)
    \/ \E c \in Calls : gradeById_AI(c)
    \/ \E c \in Calls : gradeById_Transaction(c)
    \/ \E c \in Calls : gradeById_MarkFailed(c)

CallsInit ==
    /\ InitStore /\ InitCalls(Calls, {}) /\ InitLocals
    /\ IdleRetry /\ IdleAI /\ IdleBatch /\ IdleQuiz /\ IdleContext /\ IdleTx /\ IdleRoute

\* every awaited promise of a started call settles and its continuation runs
SpecCallsFair ==
    CallsInit /\ [][CallNext]_vars /\ \A c \in Calls : WF_vars(CallStep(c))

\* the UPDATE of the catch block (status failed) threw in call c
failedWriteThrew(c) == cOut[c] = ErrStoreFailed

\* C30: a call that has set the status to grading ends, unless the status
\* write of its catch block throws, in a step that leaves the submission
\* graded or failed; and, when no such write throws, a submission with status
\* grading eventually has status graded or failed, also when several calls
\* on the same submission interleave.
C30_GradingIsLeft ==
    /\ [][\A c \in Calls :
            (/\ cPc[c] # "done" /\ cPc'[c] = "done"
             /\ wroteBy(c, "grading")
             /\ ~failedWriteThrew(c)') =>
                status'[cSub[c]] \in {"graded", "failed"}]_vars
    /\ ([](\A c \in Calls : ~failedWriteThrew(c)) =>
            \A s \in Subs :
                (status[s] = "grading") ~> (status[s] \in {"graded", "failed"}))

C30_Witness ==
    \E c, d \in Calls :
        /\ c # d /\ cSub[c] = cSub[d]
        /\ cPc[c] = "done" /\ cPc[d] = "done"
        /\ wroteBy(c, "grading") /\ wroteBy(d, "grading")
        /\ cOverlap[c]
        /\ cOut[c] = "success" /\ cOut[d] = ErrUnique
        /\ status[cSub[c]] = "failed"

(***************************************************************************)
(* Reference answer passed to the AI client (SpecContext)                  *)
(***************************************************************************)
\* C26: whichever function assembled the context, the reference answer
\* passed to the AI client is the assignment's extracted reference text when
\* that is non-empty, otherwise its plain-text reference answer when that is
\* non-empty, otherwise the empty string.
C26_ReferencePreference ==
    cxPc = "done" =>
        cxReference =
            IF cxRow.reference_text_extracted.present
               /\ cxRow.reference_text_extracted.text # <<>>
            THEN cxRow.reference_text_extracted.text
            ELSE IF cxRow.reference_answer.present /\ cxRow.reference_answer.text # <<>>
            THEN cxRow.reference_answer.text
            ELSE <<>>

(***************************************************************************)
(* transaction(callback) (SpecTx)                                          *)
(***************************************************************************)
sent(q) == \E i \in 1..Len(txLog) : txLog[i] = q

\* C25: once transaction(callback) has ended, COMMIT was sent if and only if
\* the callback returned normally; when the callback threw, ROLLBACK was sent
\* and transaction() threw the callback's error; and the client acquired
\* from the pool was released exactly once, whichever statement failed.
C25_CommitRollbackRelease ==
    txPc = "done" =>
        /\ sent("COMMIT") <=> txCb = "returned"
        /\ txCb \notin {"", "returned"} => sent("ROLLBACK") /\ txOut = txCb
        /\ txAcquired => txReleased = 1

(***************************************************************************)
(* POST /api/v1/batch/grade (SpecRoute, SpecRouteFair)                     *)
(***************************************************************************)
\* C23: a request for an assignment that has submissions to grade is
\* accepted with 202 and its batch is launched as a detached call that keeps
\* running after the reply, which is what brings every queued submission to
\* graded or failed.
C23_BatchRunsDetached ==
    (rtQueued # {}) ~> (rtReply = 202 /\ rtLaunched /\ rtBatch = "running")

\* C24: when the audit logging of the request fails, the request is still
\* answered 202 and the batch grading call is still started.
C24_AuditFailureIsHarmless ==
    rtAudit = "failed" => rtReply = 202 /\ rtLaunched

====
